---- MODULE Spec2Model ----
(***************************************************************************)
(* Dataset preparation tools of the repository: the label-preserving       *)
(* augmentation stages (brightness.py, blur.py, occlusion.py) working on   *)
(* one images/labels directory pair, the box geometry of the occlusion     *)
(* painters (occlusion.py and the compound generators), the splitter       *)
(* (split.py), the merger (merge.py), the integrity check (match.py) and   *)
(* the label readers.                                                      *)
(***************************************************************************)
EXTENDS Integers, Sequences, FiniteSets, TLC

VARIABLES
    images,        \* files of image_dir (records [stem, ext])
    labels,        \* files of label_dir: stem of "<stem>.txt" -> content
    platform,      \* os.name of the interpreter ("posix" or "nt")
    op,            \* batch operation whose loop is running, or "idle"
    files_to_process, \* the list built before the loop (as a set: os.walk order is arbitrary)
    todo,          \* entries of the list not yet visited by the loop
    cur,           \* brightness: image of the outer loop iteration in progress
    lvl,           \* brightness: index of the next brightness level for cur
    success_count, \* blur/occlusion: success_count; brightness: generated
    fail_count,
    skip_count,
    aug_num,       \* brightness: running aug number
    result,        \* value returned by the last finished operation
    crashed,       \* an exception left the operation (the process ended)
    runs,          \* number of operations started
    io_errors,     \* I/O or decode errors raised during the current operation
    startImages,   \* image_dir when the current operation started
    startLabels,   \* stems of label_dir when the current operation started
    written,       \* image files written by the current operation
    writtenLabels, \* label stems written by the current operation
    processed,     \* snapshot entries the loop has taken as input
    revisited,     \* the loop took some entry as input a second time
    g,             \* geometry: one call of an occlusion painter on one box
    sp,            \* split.py: one call of split_dataset and its directories
    mg,            \* merge.py: one call of merge_datasets and its directories
    ic,            \* match.py: one run of the integrity check and its directories
    rd,            \* one read of a label file by a label reader
    bt,            \* brightness.py: one call of brightness_augment in mode 'target'
    pl             \* head.py: the position of run_pipeline and its categories

fsvars == <<images, labels, platform, op, files_to_process, todo, cur, lvl,
            success_count, fail_count, skip_count, aug_num, result, crashed,
            runs, io_errors, startImages, startLabels, written, writtenLabels,
            processed, revisited>>
toolvars == <<sp, mg, ic, rd, bt, pl>>
vars == <<fsvars, g, toolvars>>

----------------------------------------------------------------------------
(* Bounds of the model *)

MaxRuns == 2        \* operations started in one behaviour
MaxSnapshot == 3    \* an operation is started only on at most this many images
MaxErrors == 1      \* I/O errors injected into one operation

----------------------------------------------------------------------------
(* File names.  A base name is a sequence of tokens: the raw name followed *)
(* by the suffixes the stages appended.                                    *)

Tok(kind, level, aug) == [kind |-> kind, level |-> level, aug |-> aug]
RawName(r) == <<Tok(r, 0, 0)>>

\* blur.py DEFAULT_CONFIG["suffix"]
BlurSuffix == Tok("_blur", 0, 0)
\* occlusion.py SUFFIX
OccSuffix == Tok("_occ", 0, 0)
\* brightness.py: f"_bright{brightness_label}_aug{aug_num}", level in hundredths
BrightSuffix(level, n) == Tok("_bright", level, n)

File(stem, ext) == [stem |-> stem, ext |-> ext]

\* str.lower() on the extensions that occur
Lower(e) == IF e = ".JPG" THEN ".jpg" ELSE e

IMG_EXTS == {".jpg", ".jpeg", ".png"}

\* file.lower().endswith(img_extensions)
IsImage(f) == Lower(f.ext) \in IMG_EXTS

\* the raw names and suffixes that contain "_bright"
ContainsBright(kind) == kind \in {"_bright", "sun_bright"}

\* "_bright" in file.lower()
HasBright(f) == \E i \in 1..Len(f.stem) : ContainsBright(f.stem[i].kind)

\* head.py bright_config["brightness_steps"], in hundredths
brightness_steps == <<70, 130>>

\* [b for b in brightness_steps if b != 1.0]
brightness_levels == SelectSeq(brightness_steps, LAMBDA b : b # 100)

----------------------------------------------------------------------------
(* Label files.  A content is the text of the file and its line ending.    *)

NoResult == [op |-> "none", success |-> FALSE, processed |-> 0, failed |-> 0,
             total_files |-> 0, input_count |-> 0, error |-> ""]

LabelContents == [body : {"A", "B", "empty"}, eol : {"LF", "CRLF"}]

\* parse_label_file(lbl_path): the boxes of the file, none when it is absent
ParseLabelFile(lbls, stem) ==
    IF stem \in DOMAIN lbls THEN lbls[stem].body ELSE "empty"

\* "if not boxes" is false
HasBoxes(boxes) == boxes # "empty"

\* os.linesep
LineSep == IF platform = "nt" THEN "CRLF" ELSE "LF"

\* src.read() of a file opened in text mode: universal newlines
ReadText(c) == [c EXCEPT !.eol = "LF"]
\* dst.write(text) of a file opened in text mode: "\n" becomes os.linesep
WriteText(c) == [c EXCEPT !.eol = LineSep]

\* brightness.py: with open(lbl_path,'r') ... dst.write(src.read())
TextCopy(c) == WriteText(ReadText(c))
\* shutil.copy2
ByteCopy(c) == c

PutLabel(lbls, stem, c) ==
    [s \in DOMAIN lbls \cup {stem} |-> IF s = stem THEN c ELSE lbls[s]]

\* get_all_current_images(image_dir, img_extensions)
GetAllCurrentImages(dir) == {f \in dir : IsImage(f)}

\* get_all_images(image_dir, img_extensions, skip_augmented)
GetAllImages(dir, skip_augmented) ==
    {f \in dir : IsImage(f) /\ ~(skip_augmented /\ HasBright(f))}

\* count_images(image_dir, img_extensions)
CountImages(dir) == Cardinality({f \in dir : IsImage(f)})

----------------------------------------------------------------------------
InitFiles == {File(RawName("a"), ".jpg"), File(RawName("a"), ".png"),
              File(RawName("b"), ".JPG"), File(RawName("b"), ".bmp")}

InitLabelChoices(r) ==
    IF r = "a" THEN {[body |-> "A", eol |-> "LF"], [body |-> "A", eol |-> "CRLF"],
                     [body |-> "empty", eol |-> "LF"]}
    ELSE {[body |-> "B", eol |-> "LF"]}

InitLabelDirs ==
    LET one(r) == {<<>>} \cup {RawName(r) :> c : c \in InitLabelChoices(r)}
    IN  {la @@ lb : la \in one("a"), lb \in one("b")}

GeomIdle == [phase |-> "idle"]
SplitIdle == [phase |-> "idle"]
MergeIdle == [phase |-> "idle"]
CheckIdle == [phase |-> "idle"]
ReaderIdle == [phase |-> "idle"]
TargetIdle == [phase |-> "idle"]
PipelineIdle == [phase |-> "idle"]
MoreIdle == bt = TargetIdle /\ pl = PipelineIdle

ToolsIdle ==
    sp = SplitIdle /\ mg = MergeIdle /\ ic = CheckIdle /\ rd = ReaderIdle /\ MoreIdle

FsInit ==
    /\ images \in SUBSET InitFiles
    /\ labels \in InitLabelDirs
    /\ platform \in {"posix", "nt"}
    /\ op = "idle"
    /\ files_to_process = {}
    /\ todo = {}
    /\ cur = File(<<>>, "")
    /\ lvl = 1
    /\ success_count = 0
    /\ fail_count = 0
    /\ skip_count = 0
    /\ aug_num = 1
    /\ result = NoResult
    /\ crashed = FALSE
    /\ runs = 0
    /\ io_errors = 0
    /\ startImages = {}
    /\ startLabels = {}
    /\ written = {}
    /\ writtenLabels = {}
    /\ processed = {}
    /\ revisited = FALSE

Init == FsInit /\ g = GeomIdle /\ ToolsIdle

----------------------------------------------------------------------------
(* Starting a batch operation *)

CanStart ==
    /\ op = "idle"
    /\ ~crashed
    /\ runs < MaxRuns
    /\ CountImages(images) <= MaxSnapshot

Begin(name, list) ==
    /\ op' = name
    /\ files_to_process' = list
    /\ todo' = list
    /\ cur' = File(<<>>, "")
    /\ lvl' = 1
    /\ success_count' = 0
    /\ fail_count' = 0
    /\ skip_count' = 0
    /\ aug_num' = 1
    /\ result' = NoResult
    /\ runs' = runs + 1
    /\ io_errors' = 0
    /\ startImages' = images
    /\ startLabels' = DOMAIN labels
    /\ written' = {}
    /\ writtenLabels' = {}
    /\ processed' = {}
    /\ revisited' = FALSE
    /\ UNCHANGED <<images, labels, platform, crashed, g, toolvars>>

Return(res) ==
    /\ op' = "idle"
    /\ result' = res
    /\ UNCHANGED <<images, labels, platform, files_to_process, todo, cur, lvl,
                   success_count, fail_count, skip_count, aug_num, crashed, runs,
                   io_errors, startImages, startLabels, written, writtenLabels,
                   processed, revisited, g, toolvars>>

\* A loop that walks the directory again instead of the list.
PendingLive(list_rest, live) == live

\* The entries the loop still has to visit: the loop iterates the list built
\* before it started, not the directory.
Pending(list_rest, live) == list_rest

\* An iteration that leaves its entry in the list.
TakeAgain(img) ==
    /\ img \in Pending(todo, GetAllCurrentImages(images) \ processed)
    /\ processed' = processed \cup {img}
    /\ revisited' = (revisited \/ img \in processed)
    /\ todo' = todo

\* The loop takes the next entry of the list.
Take(img) ==
    /\ img \in Pending(todo, GetAllCurrentImages(images) \ processed)
    /\ processed' = processed \cup {img}
    /\ revisited' = (revisited \/ img \in processed)
    /\ todo' = todo \ {img}

CanFail == io_errors < MaxErrors

\* An early return: the operation ends before its loop.
ReturnEarly(name, list, res) ==
    /\ op' = "idle"
    /\ files_to_process' = list
    /\ todo' = list
    /\ cur' = File(<<>>, "")
    /\ lvl' = 1
    /\ success_count' = 0
    /\ fail_count' = 0
    /\ skip_count' = 0
    /\ aug_num' = 1
    /\ result' = [res EXCEPT !.op = name]
    /\ runs' = runs + 1
    /\ io_errors' = 0
    /\ startImages' = images
    /\ startLabels' = DOMAIN labels
    /\ written' = {}
    /\ writtenLabels' = {}
    /\ processed' = {}
    /\ revisited' = FALSE
    /\ UNCHANGED <<images, labels, platform, crashed, g, toolvars>>

\* Outcomes of the I/O of one file: no error, an error while the image is
\* decoded or saved, an error while the label is copied.
Outcomes == {"ok"} \cup (IF CanFail THEN {"image_error", "copy_error"} ELSE {})

\* new_filename = f"{name}{suffix}{ext}"
NewImage(img, suffix) == File(Append(img.stem, suffix), img.ext)
\* new_lbl_filename = f"{lbl_name}{suffix}{lbl_ext}"
NewLabel(img, suffix) == Append(img.stem, suffix)

\* The writes of one loop iteration: the image is saved first, the label is
\* copied after it.
WriteSample(img, out, outLabel, copied, outcome) ==
    /\ images' = IF outcome = "image_error" THEN images ELSE images \cup {out}
    /\ written' = IF outcome = "image_error" THEN written ELSE written \cup {out}
    /\ labels' = IF outcome = "ok" THEN PutLabel(labels, outLabel, copied) ELSE labels
    /\ writtenLabels' = IF outcome = "ok" THEN writtenLabels \cup {outLabel}
                        ELSE writtenLabels
    /\ io_errors' = IF outcome = "ok" THEN io_errors ELSE io_errors + 1

WriteNothing == UNCHANGED <<images, labels, written, writtenLabels, io_errors>>

----------------------------------------------------------------------------
(* blur.py *)

BlurStart ==
    /\ CanStart
    /\ GetAllCurrentImages(images) # {}
    /\ Begin("blur", GetAllCurrentImages(images))

BlurNoImages ==
    /\ CanStart
    /\ GetAllCurrentImages(images) = {}
    /\ ReturnEarly("blur", {}, [NoResult EXCEPT !.success = TRUE])

\* interactive and the answer is not 'y'
BlurCancelled ==
    /\ CanStart
    /\ GetAllCurrentImages(images) # {}
    /\ ReturnEarly("blur", GetAllCurrentImages(images),
                   [NoResult EXCEPT !.error = "User cancelled"])

\* One iteration of the loop of blur_dataset: process_image and the counting
\* of its result.
BlurStep ==
    /\ op = "blur"
    /\ \E img \in files_to_process \cup images :
        /\ Take(img)
        /\ IF img.stem \notin DOMAIN labels
           THEN /\ WriteNothing
                /\ fail_count' = fail_count + 1
                /\ UNCHANGED success_count
           ELSE \E outcome \in Outcomes :
                /\ WriteSample(img, NewImage(img, BlurSuffix), NewLabel(img, BlurSuffix),
                               ByteCopy(labels[img.stem]), outcome)
                /\ success_count' = IF outcome = "ok" THEN success_count + 1
                                    ELSE success_count
                /\ fail_count' = IF outcome = "ok" THEN fail_count ELSE fail_count + 1
    /\ UNCHANGED <<platform, op, files_to_process, cur, lvl, skip_count, aug_num,
                   result, crashed, runs, startImages, startLabels, g, toolvars>>

BlurFinish ==
    /\ op = "blur"
    /\ Pending(todo, GetAllCurrentImages(images) \ processed) = {}
    /\ Return([op |-> "blur", success |-> TRUE, processed |-> success_count,
               failed |-> fail_count,
               total_files |-> Cardinality(files_to_process) + success_count,
               input_count |-> Cardinality(files_to_process), error |-> ""])

----------------------------------------------------------------------------
(* occlusion.py run_augmentation *)

OcclusionStart ==
    /\ CanStart
    /\ GetAllCurrentImages(images) # {}
    /\ Begin("occlusion", GetAllCurrentImages(images))

OcclusionNoImages ==
    /\ CanStart
    /\ GetAllCurrentImages(images) = {}
    /\ ReturnEarly("occlusion", {}, NoResult)

\* One iteration of the loop of run_augmentation.
OcclusionStep ==
    /\ op = "occlusion"
    /\ \E img \in files_to_process \cup images :
        /\ Take(img)
        /\ \/ \* parse_label_file returns no box: the label is absent or holds none
              /\ ~HasBoxes(ParseLabelFile(labels, img.stem))
              /\ WriteNothing
              /\ skip_count' = skip_count + 1
              /\ UNCHANGED <<success_count, fail_count>>
           \/ \* open(lbl_path) raises
              /\ img.stem \in DOMAIN labels
              /\ CanFail
              /\ io_errors' = io_errors + 1
              /\ fail_count' = fail_count + 1
              /\ UNCHANGED <<images, labels, written, writtenLabels, success_count,
                             skip_count>>
           \/ /\ HasBoxes(ParseLabelFile(labels, img.stem))
              /\ \E outcome \in Outcomes :
                    /\ WriteSample(img, NewImage(img, OccSuffix), NewLabel(img, OccSuffix),
                                   ByteCopy(labels[img.stem]), outcome)
                    /\ success_count' = IF outcome = "ok" THEN success_count + 1
                                        ELSE success_count
                    /\ fail_count' = IF outcome = "ok" THEN fail_count
                                     ELSE fail_count + 1
              /\ UNCHANGED skip_count
    /\ UNCHANGED <<platform, op, files_to_process, cur, lvl, aug_num, result, crashed,
                   runs, startImages, startLabels, g, toolvars>>

OcclusionFinish ==
    /\ op = "occlusion"
    /\ Pending(todo, GetAllCurrentImages(images) \ processed) = {}
    /\ Return([op |-> "occlusion", success |-> TRUE, processed |-> success_count,
               failed |-> fail_count, total_files |-> 0, input_count |-> 0,
               error |-> ""])

----------------------------------------------------------------------------
(* brightness.py brightness_augment, mode "fixed" *)

BrightnessStart ==
    /\ CanStart
    /\ Begin("brightness", GetAllImages(images, TRUE))

\* interactive and the answer is not 'y'
BrightnessCancelled ==
    /\ CanStart
    /\ ReturnEarly("brightness", GetAllImages(images, TRUE),
                   [NoResult EXCEPT !.error = "User cancelled"])

\* An exception leaves brightness_augment: nothing catches it.
Raise ==
    /\ crashed' = TRUE
    /\ op' = "idle"

\* One call of generate_brightness_augmentation from the loops of the fixed
\* mode, and the statements around it.
BrightnessStep ==
    /\ op = "brightness"
    /\ \E img \in files_to_process :
        /\ IF lvl = 1
           THEN Take(img)
           ELSE img = cur /\ UNCHANGED <<processed, revisited, todo>>
        /\ cur' = img
        /\ lvl' = IF lvl = Len(brightness_levels) THEN 1 ELSE lvl + 1
        /\ IF img.stem \notin DOMAIN labels
           THEN /\ WriteNothing
                /\ aug_num' = aug_num + 1
                /\ UNCHANGED <<success_count, crashed, op>>
           ELSE \E outcome \in Outcomes :
                /\ WriteSample(img,
                               File(Append(img.stem,
                                           BrightSuffix(brightness_levels[lvl], aug_num)),
                                    ".jpg"),
                               Append(img.stem,
                                      BrightSuffix(brightness_levels[lvl], aug_num)),
                               TextCopy(labels[img.stem]), outcome)
                /\ IF outcome = "ok"
                   THEN /\ success_count' = success_count + 1
                        /\ aug_num' = aug_num + 1
                        /\ UNCHANGED <<crashed, op>>
                   ELSE /\ Raise
                        /\ UNCHANGED <<success_count, aug_num>>
    /\ UNCHANGED <<platform, files_to_process, fail_count, skip_count, result, runs,
                   startImages, startLabels, g, toolvars>>

BrightnessFinish ==
    /\ op = "brightness"
    /\ lvl = 1
    /\ todo = {}
    /\ Return([op |-> "brightness", success |-> TRUE, processed |-> success_count,
               failed |-> 0, total_files |-> CountImages(images),
               input_count |-> Cardinality(files_to_process), error |-> ""])

FsNext ==
    \/ BlurStart \/ BlurNoImages \/ BlurCancelled \/ BlurStep \/ BlurFinish
    \/ OcclusionStart \/ OcclusionNoImages \/ OcclusionStep \/ OcclusionFinish
    \/ BrightnessStart \/ BrightnessCancelled \/ BrightnessStep \/ BrightnessFinish

Next == FsNext

Spec == Init /\ [][Next]_vars

----------------------------------------------------------------------------
(* Box geometry.  A box is <<cls, x_c, y_c, w, h>> with the four          *)
(* coordinates given as numerators over Den; ratios are percentages and    *)
(* aspects are fractions <<p, q>>, so that every int(...) of the code is   *)
(* computed exactly.                                                       *)

Den == 4

Coords == 0..Den
Boxes == {<<0, xc, yc, w, h>> : xc \in Coords, yc \in Coords, w \in Coords, h \in Coords}
ImgSizes == {1, 12, 20}

\* int(n / d) for d > 0: truncation toward zero
Trunc(n, d) == IF n >= 0 THEN n \div d ELSE -((-n) \div d)

Max(a, b) == IF a >= b THEN a ELSE b
Min(a, b) == IF a <= b THEN a ELSE b

RECURSIVE ISqrtFrom(_, _, _)
ISqrtFrom(k, n, d) == IF (k + 1) * (k + 1) * d > n THEN k ELSE ISqrtFrom(k + 1, n, d)
\* int(math.sqrt(n / d)) for n >= 0, d > 0
ISqrt(n, d) == ISqrtFrom(0, n, d)

\* math.pi as the fraction PiNum / PiDen
PiNum == 355
PiDen == 113

\* the conversion without the final max(0, .) / min(size, .)
YoloToPixelsUnclamped(yolo_box, img_width, img_height) ==
    <<Trunc(2 * yolo_box[2] * img_width - yolo_box[4] * img_width, 2 * Den),
      Trunc(2 * yolo_box[3] * img_height - yolo_box[5] * img_height, 2 * Den),
      Trunc(2 * yolo_box[2] * img_width + yolo_box[4] * img_width, 2 * Den),
      Trunc(2 * yolo_box[3] * img_height + yolo_box[5] * img_height, 2 * Den)>>

\* occlusion.py yolo_to_pixels, for coordinates given as numerators over den
YoloToPixelsOver(den, yolo_box, img_width, img_height) ==
    LET x_c == yolo_box[2]
        y_c == yolo_box[3]
        w == yolo_box[4]
        h == yolo_box[5]
        x_min == Trunc(2 * x_c * img_width - w * img_width, 2 * den)
        y_min == Trunc(2 * y_c * img_height - h * img_height, 2 * den)
        x_max == Trunc(2 * x_c * img_width + w * img_width, 2 * den)
        y_max == Trunc(2 * y_c * img_height + h * img_height, 2 * den)
    IN  <<Max(0, x_min), Max(0, y_min), Min(img_width, x_max), Min(img_height, y_max)>>

\* occlusion.py yolo_to_pixels
YoloToPixels(yolo_box, img_width, img_height) ==
    YoloToPixelsOver(Den, yolo_box, img_width, img_height)

\* yolo_to_pixels of the compound generators (dark_occlusion.py,
\* brightness_occlusion.py, bright_blur_occlusion.py, apply_triple_threat.py)
YoloToPixelsCompound(yolo_box, img_width, img_height) ==
    LET x_c == yolo_box[2]
        y_c == yolo_box[3]
        w == yolo_box[4]
        h == yolo_box[5]
        x_min == Trunc(2 * x_c * img_width - w * img_width, 2 * Den)
        y_min == Trunc(2 * y_c * img_height - h * img_height, 2 * Den)
        x_max == Trunc(x_min * Den + w * img_width, Den)
        y_max == Trunc(y_min * Den + h * img_height, Den)
    IN  <<Max(0, x_min), Max(0, y_min), Min(img_width, x_max), Min(img_height, y_max)>>

\* occlusion.py DEFAULT_OCCLUSION_RATIOS, in percent
DEFAULT_OCCLUSION_RATIOS == {30, 40, 50, 60}
\* OCCLUSION_RATIOS of the compound generators, in percent
OCCLUSION_RATIOS == {30, 45, 60}

\* values of random.uniform(0.5, 2.0)
AspectsOcclusion == {<<1, 2>>, <<1, 1>>, <<2, 1>>}
\* values of random.uniform(0.7, 1.4)
AspectsCompound == {<<7, 10>>, <<1, 1>>, <<7, 5>>}

\* a range that is one too long
RandIntPastEnd(lo, hi) == lo..(hi + 1)

\* random.randint(lo, hi)
RandInt(lo, hi) == lo..hi

\* dimensions left uncapped
CapOff(occ, obj) == occ

\* min(occ, obj): "Cap dimensions"
Cap(occ, obj) == Min(occ, obj)

\* radius = min(radius, min_dim // 2)
CapRadius(radius, min_dim) == Min(radius, min_dim \div 2)

\* the guard of the painter of occlusion.py: "if obj_area <= 0: continue"
SkipsBox(obj_w, obj_h) == obj_w * obj_h <= 0

\* the guard of the compound painters: "if obj_w <= 5 or obj_h <= 5: continue"
SkipsBoxCompound(obj_w, obj_h) == obj_w <= 5 \/ obj_h <= 5

GeomBox(box, img_w, img_h) ==
    [phase |-> "box", variant |-> "", box |-> box, img_w |-> img_w, img_h |-> img_h,
     bounds |-> <<0, 0, 0, 0>>, obj_w |-> 0, obj_h |-> 0, skipped |-> FALSE,
     raised |-> FALSE, shape |-> "", occ_w |-> 0, occ_h |-> 0, max_x |-> 0,
     max_y |-> 0, offset_x |-> 0, offset_y |-> 0, painted |-> {}, den |-> Den,
     ratio |-> 0]

\* draw.rectangle / draw.ellipse on the image buffer: the buffer is the set
\* of shapes painted on it
Paint(buffer, shape, x0, y0, x1, y1) ==
    buffer \cup {[shape |-> shape, x0 |-> x0, y0 |-> y0, x1 |-> x1, y1 |-> y1]}

\* The body of the loop over boxes, after the shape is sized.
Place(st, shape, occ_w, occ_h) ==
    LET b == st.bounds
        max_x == st.obj_w - occ_w
        max_y == st.obj_h - occ_h
        base == [st EXCEPT !.phase = "done", !.shape = shape,
                           !.occ_w = occ_w, !.occ_h = occ_h, !.max_x = max_x,
                           !.max_y = max_y]
    IN  IF max_x < 0 \/ max_y < 0
        THEN {[base EXCEPT !.raised = TRUE]}   \* randint raises ValueError
        ELSE {[base EXCEPT !.offset_x = ox, !.offset_y = oy,
                           !.painted = Paint(st.painted, shape, b[1] + ox, b[2] + oy,
                                             b[1] + ox + occ_w, b[2] + oy + occ_h)] :
              ox \in RandInt(0, max_x), oy \in RandInt(0, max_y)}

Skipped(st) == [st EXCEPT !.phase = "done", !.skipped = TRUE]

\* the call of yolo_to_pixels that opens the loop body of apply_occlusion
ConvertBox ==
    /\ g.phase = "box"
    /\ LET b == YoloToPixels(g.box, g.img_w, g.img_h)
       IN  g' = [g EXCEPT !.phase = "bounds", !.variant = "occlusion", !.bounds = b,
                          !.obj_w = b[3] - b[1], !.obj_h = b[4] - b[2]]
    /\ UNCHANGED <<fsvars, toolvars>>

\* the call of yolo_to_pixels that opens the loop body of a compound painter
ConvertBoxCompound ==
    /\ g.phase = "box"
    /\ LET b == YoloToPixelsCompound(g.box, g.img_w, g.img_h)
       IN  g' = [g EXCEPT !.phase = "bounds", !.variant = "compound", !.bounds = b,
                          !.obj_w = b[3] - b[1], !.obj_h = b[4] - b[2]]
    /\ UNCHANGED <<fsvars, toolvars>>

\* occlusion.py apply_occlusion: the rest of the loop body for the box
ApplyOcclusion ==
    /\ g.phase = "bounds"
    /\ g.variant = "occlusion"
    /\ LET obj_w == g.obj_w
           obj_h == g.obj_h
           obj_area == obj_w * obj_h
       IN  IF SkipsBox(obj_w, obj_h)
           THEN g' = Skipped(g)
           ELSE \E ratio \in DEFAULT_OCCLUSION_RATIOS, shape_type \in {"rectangle", "circle"} :
                  IF shape_type = "rectangle"
                  THEN \E aspect \in AspectsOcclusion :
                         g' \in Place([g EXCEPT !.ratio = ratio], shape_type,
                                      Cap(ISqrt(obj_area * ratio * aspect[1], 100 * aspect[2]), obj_w),
                                      Cap(ISqrt(obj_area * ratio * aspect[2], 100 * aspect[1]), obj_h))
                  ELSE LET radius == CapRadius(ISqrt(obj_area * ratio * PiDen, 100 * PiNum),
                                               Min(obj_w, obj_h))
                       IN  g' \in Place([g EXCEPT !.ratio = ratio], shape_type,
                                        radius * 2, radius * 2)
    /\ UNCHANGED <<fsvars, toolvars>>

\* the occlusion step of the compound generators: the rest of the loop body
ApplyCompoundOcclusion ==
    /\ g.phase = "bounds"
    /\ g.variant = "compound"
    /\ LET obj_w == g.obj_w
           obj_h == g.obj_h
           obj_area == obj_w * obj_h
       IN  IF SkipsBoxCompound(obj_w, obj_h)
           THEN g' = Skipped(g)
           ELSE \E ratio \in OCCLUSION_RATIOS, aspect \in AspectsCompound :
                  g' \in Place([g EXCEPT !.ratio = ratio], "rectangle",
                               Cap(ISqrt(obj_area * ratio * aspect[1], 100 * aspect[2]), obj_w),
                               Cap(ISqrt(obj_area * ratio * aspect[2], 100 * aspect[1]), obj_h))
    /\ UNCHANGED <<fsvars, toolvars>>

GeomInit ==
    /\ FsInit
    /\ images = {}
    /\ labels = <<>>
    /\ platform = "posix"
    /\ ToolsIdle
    /\ g \in {GeomBox(box, w, h) : box \in Boxes, w \in ImgSizes, h \in ImgSizes}

GeomNext == ConvertBox \/ ConvertBoxCompound \/ ApplyOcclusion \/ ApplyCompoundOcclusion

SpecGeom == GeomInit /\ [][GeomNext]_vars

\* Boxes on a 100x100 image with coordinates in twentieths: the center
\* (0.5, 0.5) and sizes 0.1, 0.2, 0.3.
WorkedBoxes == {<<0, 10, 10, w, h>> : w \in {2, 4, 6}, h \in {2, 4, 6}}

\* the call of yolo_to_pixels that opens the loop body of apply_occlusion,
\* for a box on the finer grid
ConvertWorkedBox ==
    /\ g.phase = "worked"
    /\ LET b == YoloToPixelsOver(g.den, g.box, g.img_w, g.img_h)
       IN  g' = [g EXCEPT !.phase = "bounds", !.variant = "occlusion", !.bounds = b,
                          !.obj_w = b[3] - b[1], !.obj_h = b[4] - b[2]]
    /\ UNCHANGED <<fsvars, toolvars>>

WorkedInit ==
    /\ FsInit
    /\ images = {}
    /\ labels = <<>>
    /\ platform = "posix"
    /\ ToolsIdle
    /\ g \in {[GeomBox(box, 100, 100) EXCEPT !.phase = "worked", !.den = 20] :
               box \in WorkedBoxes}

WorkedNext == ConvertWorkedBox \/ ApplyOcclusion

SpecWorked == WorkedInit /\ [][WorkedNext]_vars

----------------------------------------------------------------------------
(* Properties of the batch stages *)

\* the operation that is running or has just returned
CurOp == IF op # "idle" THEN op ELSE result.op
\* the loop of the operation has run to its end and the operation returned
Finished == op = "idle" /\ result.success /\ ~crashed
\* a label written by a stage: its name carries a stage suffix
Derived(stem) == Len(stem) > 1
SourceOf(stem) == SubSeq(stem, 1, Len(stem) - 1)
RootOf(stem) == SubSeq(stem, 1, 1)

\* C1: every label file a stage emitted has the content of the label of the
\* image it was derived from, and so of the original at the root of its
\* suffix chain.
C1_DerivedLabelIdentical ==
    \A stem \in DOMAIN labels :
        Derived(stem) =>
            /\ SourceOf(stem) \in DOMAIN labels
            /\ labels[stem] = labels[SourceOf(stem)]
            /\ labels[stem] = labels[RootOf(stem)]

\* C2: every image file a stage wrote has a label file with the same base
\* name, also after runs in which files failed.
C2_WrittenImageHasLabel ==
    \A f \in images : Derived(f.stem) => f.stem \in DOMAIN labels

\* C3: within one run of blur_dataset or run_augmentation the inputs are the
\* images present when the run started, each taken once; no file created by
\* the run is an input of it, and at most one image is created per input.
C3_SnapshotFixed ==
    CurOp \in {"blur", "occlusion"} =>
        /\ files_to_process = GetAllCurrentImages(startImages)
        /\ processed \subseteq files_to_process
        /\ processed \cap todo = {}
        /\ processed \cup todo = files_to_process
        /\ ~revisited
        /\ processed \cap (written \ startImages) = {}
        /\ Cardinality(written) <= Cardinality(processed)
        /\ (Finished /\ files_to_process # {} => processed = files_to_process)

\* a second run has finished on a directory holding the outputs of a first one
C3_Witness ==
    /\ Finished
    /\ CurOp \in {"blur", "occlusion"}
    /\ runs = 2
    /\ \E f \in processed : Derived(f.stem)
    /\ Cardinality(processed) >= 3
    /\ written # {}

\* C4: a run of blur_dataset or run_augmentation writes only names that were
\* absent when it started, and the number of images grows by the number of
\* samples it reports as created (stated for the runs in which no file fails).
C4_OutputsAreFresh ==
    CurOp \in {"blur", "occlusion"} /\ io_errors = 0 =>
        /\ written \cap startImages = {}
        /\ writtenLabels \cap startLabels = {}
        /\ (Finished => CountImages(images) = CountImages(startImages) + result.processed)

\* C5: an I/O or decode failure on one file never aborts the batch, and the
\* remaining files are still processed.
C5_FailureNeverAborts ==
    /\ ~crashed
    /\ (Finished /\ files_to_process # {} => processed = files_to_process)

\* C6: the failed count returned by blur_dataset and run_augmentation is the
\* number of files on which an I/O or decode error occurred; an image without
\* label adds nothing to it.
C6_FailedCountsOnlyErrors ==
    Finished /\ CurOp \in {"blur", "occlusion"} => result.failed = io_errors

----------------------------------------------------------------------------
(* Properties of the box geometry *)

InBounds(b, img_w, img_h) ==
    /\ 0 <= b[1] /\ b[1] <= b[3] /\ b[3] <= img_w
    /\ 0 <= b[2] /\ b[2] <= b[4] /\ b[4] <= img_h

Convert(variant, box, img_w, img_h) ==
    IF variant = "occlusion" THEN YoloToPixels(box, img_w, img_h)
    ELSE YoloToPixelsCompound(box, img_w, img_h)

SameSize(b1, b2) == b1[4] = b2[4] /\ b1[5] = b2[5]
SameCenter(b1, b2) == b1[2] = b2[2] /\ b1[3] = b2[3]
CenterAtLeast(b1, b2) == b1[2] >= b2[2] /\ b1[3] >= b2[3]
SizeAtLeast(b1, b2) == b1[4] >= b2[4] /\ b1[5] >= b2[5]
AllAtLeast(p, q) == \A i \in 1..4 : p[i] >= q[i]

\* C7: for a box more than 5 pixels wide and high the occlusion shape is no
\* larger than the box, whatever ratio, shape and aspect are drawn.
C7_ShapeFitsBox ==
    g.phase = "done" /\ g.obj_w > 5 /\ g.obj_h > 5 =>
        /\ ~g.skipped
        /\ g.occ_w <= g.obj_w
        /\ g.occ_h <= g.obj_h
        /\ (g.shape = "circle" => g.occ_w = g.occ_h /\ g.occ_w <= Min(g.obj_w, g.obj_h))

\* a rectangle whose raw width exceeded the box and was capped to it
C7_Witness ==
    /\ g.phase = "done"
    /\ g.obj_w > 5 /\ g.obj_h > 5
    /\ g.shape = "rectangle"
    /\ g.occ_w = g.obj_w
    /\ g.occ_h < g.obj_h
    /\ g.painted # {}

\* C8: for a box at most 5 pixels wide or high nothing is painted.
C8_SmallBoxUnpainted ==
    g.phase = "done" /\ (g.obj_w <= 5 \/ g.obj_h <= 5) => g.painted = {}

\* C9 as claimed: the pixel bounds lie inside the image, and a box with a
\* larger center or a larger size never gets a smaller bound.
C9_ClampedAndMonotonic ==
    g.phase = "bounds" =>
        /\ InBounds(g.bounds, g.img_w, g.img_h)
        /\ \A b2 \in Boxes :
              (SameSize(b2, g.box) /\ CenterAtLeast(b2, g.box))
              \/ (SameCenter(b2, g.box) /\ SizeAtLeast(b2, g.box))
              => AllAtLeast(Convert(g.variant, b2, g.img_w, g.img_h), g.bounds)

\* C9 as amended: the pixel bounds lie inside the image; a larger center
\* never gives a smaller bound; a larger size never gives a larger x_min or
\* y_min, and in occlusion.py never a smaller x_max or y_max.
C9_ClampedAndMonotonicInCenter ==
    g.phase = "bounds" =>
        /\ InBounds(g.bounds, g.img_w, g.img_h)
        /\ \A b2 \in Boxes :
              LET p == Convert(g.variant, b2, g.img_w, g.img_h)
              IN  /\ SameSize(b2, g.box) /\ CenterAtLeast(b2, g.box)
                     => AllAtLeast(p, g.bounds)
                  /\ SameCenter(b2, g.box) /\ SizeAtLeast(b2, g.box)
                     => /\ p[1] <= g.bounds[1]
                        /\ p[2] <= g.bounds[2]
                        /\ (g.variant = "occlusion"
                            => p[3] >= g.bounds[3] /\ p[4] >= g.bounds[4])

\* a box whose right edge passes the image and is clamped to its width
C9_Witness ==
    /\ g.phase = "bounds"
    /\ g.box[2] = Den
    /\ g.box[4] > 0
    /\ g.bounds[3] = g.img_w
    /\ g.bounds[1] > 0
    /\ g.bounds[1] < g.bounds[3]

\* C10: for a painted box the range of each offset is not empty, the offsets
\* lie in [0, obj - occ] (0 when there is no slack), and the painted shape
\* lies inside the pixel bounds of the box.
C10_PlacementInsideBox ==
    g.phase = "done" /\ ~g.skipped =>
        /\ ~g.raised
        /\ g.max_x >= 0 /\ g.max_y >= 0
        /\ 0 <= g.offset_x /\ g.offset_x <= g.obj_w - g.occ_w
        /\ 0 <= g.offset_y /\ g.offset_y <= g.obj_h - g.occ_h
        /\ (g.obj_w = g.occ_w => g.offset_x = 0)
        /\ (g.obj_h = g.occ_h => g.offset_y = 0)
        /\ g.painted # {}
        /\ \A p \in g.painted :
              /\ g.bounds[1] <= p.x0 /\ p.x0 <= p.x1 /\ p.x1 <= g.bounds[3]
              /\ g.bounds[2] <= p.y0 /\ p.y0 <= p.y1 /\ p.y1 <= g.bounds[4]

\* a shape as wide as its box, placed at the far end of the vertical slack
C10_Witness ==
    /\ g.phase = "done"
    /\ g.painted # {}
    /\ g.max_x = 0 /\ g.offset_x = 0
    /\ g.max_y > 0 /\ g.offset_y = g.max_y
    /\ \E p \in g.painted : p.y1 = g.bounds[4]

----------------------------------------------------------------------------
(* split.py.  A ratio is written in percent; the float of the code is the  *)
(* double nearest to pct / 100, and int(total * ratio) is computed as the  *)
(* double product rounds.                                                  *)

MaxShuffle == 3     \* lists up to this length are shuffled into every order

\* DEFAULT_CONFIG["max_total"]
DEFAULT_MAX_TOTAL == 1786

Splits == <<"train", "val", "test">>
SplitNames == {Splits[i] : i \in 1..Len(Splits)}

RECURSIVE Pow2(_)
Pow2(k) == IF k = 0 THEN 1 ELSE 2 * Pow2(k - 1)

RECURSIVE Pow2Mod100(_)
Pow2Mod100(k) == IF k = 0 THEN 1 ELSE (2 * Pow2Mod100(k - 1)) % 100

\* the j with 2^-j <= pct / 100 < 2^(1-j)
RECURSIVE BinadeFrom(_, _)
BinadeFrom(j, pct) == IF pct * Pow2(j) >= 100 THEN j ELSE BinadeFrom(j + 1, pct)
Binade(pct) == BinadeFrom(0, pct)

\* the least m with k <= 2^m
RECURSIVE ExpFrom(_, _)
ExpFrom(m, k) == IF k <= Pow2(m) THEN m ELSE ExpFrom(m + 1, k)
ExpAbove(k) == ExpFrom(0, k)

\* The double of pct / 100 has a 53-bit mantissa M = round(pct * 2^q / 100),
\* q = 52 + Binade(pct); DoubleError is 100 * M - pct * 2^q, the error of the
\* double in hundredths of its last mantissa bit.
DoubleError(pct) ==
    LET t == (pct * Pow2Mod100(52 + Binade(pct))) % 100
    IN  IF t <= 50 THEN -t ELSE 100 - t

\* the exact floor of total * pct / 100
FloorTimes(total, pct) == (total * pct) \div 100

\* int(total * ratio) in double arithmetic: the exact product total * pct / 100
\* when it is not an integer k, or when the double of the ratio is not below
\* pct / 100; else the product lies below k by total * |DoubleError| / 100
\* last bits, and rounds to k only if that is at most half a unit in the
\* last place of the doubles below k.
IntTimes(total, pct) ==
    LET k == (total * pct) \div 100
        e == DoubleError(pct)
    IN  IF /\ pct > 0
           /\ (total * pct) % 100 = 0
           /\ k > 0
           /\ e < 0
           /\ 4 * total * (-e) > 100 * Pow2(ExpAbove(k) + Binade(pct))
        THEN k - 1
        ELSE k

\* list[lo:hi] for 0 <= lo and 0 <= hi
Slice(list, lo, hi) == SubSeq(list, Min(lo, Len(list)) + 1, Min(hi, Len(list)))

Range(list) == {list[i] : i \in 1..Len(list)}

Orders(n) == {f \in [1..n -> 1..n] : \A i, j \in 1..n : f[i] = f[j] => i = j}
Rotate(list, k) == [i \in 1..Len(list) |-> list[((i + k - 1) % Len(list)) + 1]]

\* random.shuffle(pairs): every order of a short list, some orders of a long one
Shuffle(list) ==
    IF Len(list) <= MaxShuffle
    THEN {[i \in 1..Len(list) |-> list[f[i]]] : f \in Orders(Len(list))}
    ELSE {Rotate(list, k) : k \in 0..MaxShuffle}

\* label_file = base + ".txt"
LabelOf(img) == File(img.stem, ".txt")

\* a listing that also returns images without label
GetAllImagesAsPairs(image_dir_exists, label_dir_exists, source_images, source_labels) ==
    LET found == SelectSeq(source_images, IsImage)
    IN  [i \in 1..Len(found) |-> <<found[i], LabelOf(found[i])>>]

\* get_image_label_pairs(source_image_dir, source_label_dir, img_extensions)
GetImageLabelPairs(image_dir_exists, label_dir_exists, source_images, source_labels) ==
    IF ~image_dir_exists \/ ~label_dir_exists
    THEN <<>>
    ELSE LET found == SelectSeq(source_images,
                                LAMBDA f : IsImage(f) /\ LabelOf(f) \in source_labels)
         IN  [i \in 1..Len(found) |-> <<found[i], LabelOf(found[i])>>]

\* a list left as long as it was found
TrimOff(pairs, max_total) == pairs

\* "if len(pairs) > max_total: pairs = pairs[:max_total]"
Trim(pairs, max_total) ==
    IF Len(pairs) > max_total THEN Slice(pairs, 0, max_total) ELSE pairs

\* a test size taken from its own ratio
TestSizeFromRatio(total, train_size, val_size, test_ratio) == IntTimes(total, test_ratio)

\* test_size = total - train_size - val_size
TestSize(total, train_size, val_size, test_ratio) == total - train_size - val_size

\* The output root: whether it exists, and the files of its
\* {split}/images and {split}/labels directories.
NoTree == [exists |-> FALSE, images |-> [s \in SplitNames |-> {}],
           labels |-> [s \in SplitNames |-> {}]]

OldTree == [exists |-> TRUE,
            images |-> [s \in SplitNames |->
                           IF s = "train" THEN {File(RawName("old"), ".jpg")} ELSE {}],
            labels |-> [s \in SplitNames |->
                           IF s = "train" THEN {File(RawName("old"), ".txt")} ELSE {}]]

\* shutil.rmtree(output_root)
RmTree(tree) == NoTree

\* os.makedirs(dest_img_dir, exist_ok=True); os.makedirs(dest_lbl_dir, exist_ok=True)
MakeDirs(tree) == [tree EXCEPT !.exists = TRUE]

NoSplitResult == [success |-> FALSE, error |-> "", train_count |-> 0, val_count |-> 0,
                  test_count |-> 0, failed |-> 0]

\* The state of one call of split_dataset(config, interactive).  layout is
\* "nested" when source_image_dir and source_label_dir lie under output_root.
SplitCall(image_dir_exists, label_dir_exists, source_images, source_labels, layout, output, interactive, ratios, max_total) ==
    [phase |-> "called", image_dir_exists |-> image_dir_exists,
     label_dir_exists |-> label_dir_exists, source_images |-> source_images,
     source_labels |-> source_labels, layout |-> layout, output |-> output,
     interactive |-> interactive, train_ratio |-> ratios[1], val_ratio |-> ratios[2],
     test_ratio |-> ratios[3], max_total |-> max_total, found |-> 0, pairs |-> <<>>,
     total |-> 0, train_size |-> 0, val_size |-> 0, test_size |-> 0,
     slices |-> <<>>, split |-> 0, todo |-> <<>>, copied |-> 0, failed |-> 0,
     counts |-> <<>>, attempts |-> <<>>, errors |-> 0, removed |-> FALSE,
     result |-> NoSplitResult,
     source_images0 |-> source_images, source_labels0 |-> source_labels,
     output0 |-> output]

splitOthers == <<fsvars, g, mg, ic, rd, bt, pl>>

\* "if not pairs: return"
SplitNoPairs ==
    /\ sp.phase = "called"
    /\ GetImageLabelPairs(sp.image_dir_exists, sp.label_dir_exists,
                          sp.source_images, sp.source_labels) = <<>>
    /\ sp' = [sp EXCEPT !.phase = "returned",
                        !.result = [NoSplitResult EXCEPT !.error = "No valid pairs found"]]
    /\ UNCHANGED splitOthers

\* split_dataset from the listing of the pairs to the split sizes
SplitPlan ==
    /\ sp.phase = "called"
    /\ LET listed == GetImageLabelPairs(sp.image_dir_exists, sp.label_dir_exists,
                                        sp.source_images, sp.source_labels)
       IN  /\ listed # <<>>
           /\ \E shuffled \in Shuffle(listed) :
                LET pairs == Trim(shuffled, sp.max_total)
                    total == Len(pairs)
                    train_size == IntTimes(total, sp.train_ratio)
                    val_size == IntTimes(total, sp.val_ratio)
                IN  sp' = [sp EXCEPT !.phase = "planned", !.found = Len(listed),
                                     !.pairs = pairs, !.total = total,
                                     !.train_size = train_size, !.val_size = val_size,
                                     !.test_size = TestSize(total, train_size, val_size,
                                                            sp.test_ratio)]
    /\ UNCHANGED splitOthers

\* the output root exists and the answer to "Overwrite existing dataset?" is not 'y'
SplitOverwriteDeclined ==
    /\ sp.phase = "planned"
    /\ sp.output.exists
    /\ sp.interactive
    /\ sp' = [sp EXCEPT !.phase = "returned",
                        !.result = [NoSplitResult EXCEPT !.error = "User cancelled"]]
    /\ UNCHANGED splitOthers

\* "if os.path.exists(output_root)": the root is removed, after the answer 'y'
\* in interactive mode; the source directories go with it when they lie under it
SplitRemoveExisting ==
    /\ sp.phase = "planned"
    /\ IF sp.output.exists
       THEN sp' = [sp EXCEPT !.phase = "cleared", !.removed = TRUE,
                             !.output = RmTree(sp.output),
                             !.source_images = IF sp.layout = "nested" THEN <<>> ELSE @,
                             !.source_labels = IF sp.layout = "nested" THEN {} ELSE @]
       ELSE sp' = [sp EXCEPT !.phase = "cleared"]
    /\ UNCHANGED splitOthers

\* the answer to "Proceed with split?" is not 'y'
SplitProceedDeclined ==
    /\ sp.phase = "cleared"
    /\ sp.interactive
    /\ sp' = [sp EXCEPT !.phase = "returned",
                        !.result = [NoSplitResult EXCEPT !.error = "User cancelled"]]
    /\ UNCHANGED splitOthers

\* "Split the pairs"
SplitSlice ==
    /\ sp.phase = "cleared"
    /\ sp' = [sp EXCEPT !.phase = "sliced",
                        !.slices = <<Slice(sp.pairs, 0, sp.train_size),
                                     Slice(sp.pairs, sp.train_size,
                                           sp.train_size + sp.val_size),
                                     Slice(sp.pairs, sp.train_size + sp.val_size,
                                           Len(sp.pairs))>>]
    /\ UNCHANGED splitOthers

\* a loop that ends at the first failure
AbortAfterFailure(rest) == <<>>

\* "except Exception": the loop goes on with the pairs that remain
AfterFailure(rest) == rest

\* Outcomes of the two copies of one pair: a source that is gone raises; any
\* copy may fail with an I/O error.
CopyOutcomes(pair) ==
    IF pair[1] \notin Range(sp.source_images) THEN {"image_error"}
    ELSE IF pair[2] \notin sp.source_labels THEN {"copy_error"}
    ELSE {"ok"} \cup (IF sp.errors < MaxErrors THEN {"image_error", "copy_error"} ELSE {})

\* the start of a call of copy_files: the next slice and its directories
CopyFilesBegin ==
    /\ sp.phase = "sliced"
    /\ sp.split < Len(Splits)
    /\ sp' = [sp EXCEPT !.phase = "copying", !.split = sp.split + 1,
                        !.todo = sp.slices[sp.split + 1], !.copied = 0, !.failed = 0,
                        !.output = MakeDirs(sp.output)]
    /\ UNCHANGED splitOthers

\* one iteration of the loop of copy_files: the image is copied first, the
\* label after it
CopyFilesStep ==
    /\ sp.phase = "copying"
    /\ sp.todo # <<>>
    /\ LET pair == Head(sp.todo)
           name == Splits[sp.split]
       IN  \E outcome \in CopyOutcomes(pair) :
             sp' = [sp EXCEPT
                      !.attempts = Append(@, pair),
                      !.output.images[name] =
                          IF outcome = "image_error" THEN @ ELSE @ \cup {pair[1]},
                      !.output.labels[name] =
                          IF outcome = "ok" THEN @ \cup {pair[2]} ELSE @,
                      !.copied = IF outcome = "ok" THEN @ + 1 ELSE @,
                      !.failed = IF outcome = "ok" THEN @ ELSE @ + 1,
                      !.errors = IF outcome = "ok" THEN @ ELSE @ + 1,
                      !.todo = IF outcome = "ok" THEN Tail(@) ELSE AfterFailure(Tail(@))]
    /\ UNCHANGED splitOthers

\* "return copied, failed"
CopyFilesReturn ==
    /\ sp.phase = "copying"
    /\ sp.todo = <<>>
    /\ sp' = [sp EXCEPT !.phase = "sliced",
                        !.counts = Append(@, [copied |-> sp.copied, failed |-> sp.failed,
                                              pairs |-> Len(sp.slices[sp.split])])]
    /\ UNCHANGED splitOthers

\* the return of split_dataset after the three calls of copy_files
SplitReturn ==
    /\ sp.phase = "sliced"
    /\ sp.split = Len(Splits)
    /\ sp' = [sp EXCEPT !.phase = "returned",
                        !.result = [success |-> TRUE, error |-> "",
                                    train_count |-> sp.counts[1].copied,
                                    val_count |-> sp.counts[2].copied,
                                    test_count |-> sp.counts[3].copied,
                                    failed |-> sp.counts[1].failed + sp.counts[2].failed
                                               + sp.counts[3].failed]]
    /\ UNCHANGED splitOthers

\* split ratios (train, val, test) in percent; the first is DEFAULT_CONFIG
RatioChoices == {<<70, 15, 15>>, <<34, 34, 32>>, <<100, 0, 0>>}

FsFrozen == FsInit /\ images = {} /\ labels = <<>> /\ platform = "posix"

SourceListing == <<File(RawName("a"), ".jpg"), File(RawName("a"), ".png"),
                   File(RawName("b"), ".JPG"), File(RawName("c"), ".bmp")>>

SourceImageDirs ==
    {SelectSeq(SourceListing, LAMBDA f : f \in S) : S \in SUBSET Range(SourceListing)}

SourceLabelDirs ==
    {{File(RawName(r), ".txt") : r \in S} :
        S \in {{}, {"a"}, {"a", "b"}, {"a", "b", "c"}, {"a", "d"}, {"b", "d"}}}

SplitInit ==
    /\ FsFrozen
    /\ g = GeomIdle /\ mg = MergeIdle /\ ic = CheckIdle /\ rd = ReaderIdle /\ MoreIdle
    /\ \E imgs \in SourceImageDirs, lbls \in SourceLabelDirs,
          missing \in {"none", "images", "labels"},
          layout \in {"disjoint", "nested"}, output \in {NoTree, OldTree},
          interactive \in BOOLEAN, ratios \in RatioChoices,
          max_total \in {2, DEFAULT_MAX_TOTAL} :
         /\ layout = "nested" => output.exists
         /\ missing = "images" => imgs = <<>>
         /\ missing = "labels" => lbls = {}
         /\ sp = SplitCall(missing # "images", missing # "labels", imgs, lbls, layout,
                           output, interactive, ratios, max_total)

SplitNext ==
    \/ SplitNoPairs \/ SplitPlan \/ SplitOverwriteDeclined \/ SplitRemoveExisting
    \/ SplitProceedDeclined \/ SplitSlice \/ CopyFilesBegin \/ CopyFilesStep
    \/ CopyFilesReturn \/ SplitReturn

SpecSplit == SplitInit /\ [][SplitNext]_vars

\* numbers of valid pairs of the size computation
PairCounts == {1, 2, 3, 4, 5, 7, 10, 20, 90, 1000}

NumberedImages(n) == [i \in 1..n |-> File(<<Tok("img", i, 0)>>, ".jpg")]

SizesInit ==
    /\ FsFrozen
    /\ g = GeomIdle /\ mg = MergeIdle /\ ic = CheckIdle /\ rd = ReaderIdle /\ MoreIdle
    /\ \E n \in PairCounts, ratios \in RatioChoices \cup {<<50, 25, 25>>, <<57, 29, 14>>},
          max_total \in {2, 5, 50, DEFAULT_MAX_TOTAL} :
         sp = SplitCall(TRUE, TRUE, NumberedImages(n),
                        {LabelOf(NumberedImages(n)[i]) : i \in 1..n}, "disjoint", NoTree,
                        FALSE, ratios, max_total)

SizesNext == SplitPlan \/ SplitRemoveExisting \/ SplitSlice

SpecSizes == SizesInit /\ [][SizesNext]_vars

----------------------------------------------------------------------------
(* match.py: the integrity check of one images/labels directory pair *)

TXT_EXT == ".txt"

\* the keys of get_file_map(directory, extensions): the base names of the
\* files whose extension, lowercased, is in extensions
FileMapKeys(directory, extensions) ==
    {f.stem : f \in {x \in directory : Lower(x.ext) \in extensions}}

\* get_file_map(directory, extensions): a dict base -> file name; of several
\* files with one base the last one listed stays, and os.listdir lists in
\* any order, so every choice of one file per base is a possible dict
GetFileMap(directory, extensions) ==
    {m \in [FileMapKeys(directory, extensions) -> directory] :
        \A b \in DOMAIN m : m[b].stem = b /\ Lower(m[b].ext) \in extensions}

\* the difference taken the other way round
OrphanImagesSwapped(img_bases, lbl_bases) == lbl_bases \ img_bases

\* orphan_images = img_bases - lbl_bases
OrphanImages(img_bases, lbl_bases) == img_bases \ lbl_bases
\* orphan_labels = lbl_bases - img_bases
OrphanLabels(img_bases, lbl_bases) == lbl_bases \ img_bases
\* valid_pairs = img_bases & lbl_bases
ValidPairs(img_bases, lbl_bases) == img_bases \cap lbl_bases

----------------------------------------------------------------------------
(* Properties of split.py *)

Planned == sp.phase \in {"planned", "cleared", "sliced", "copying"}
Sliced == sp.phase \in {"sliced", "copying"}
Returned == sp.phase = "returned"
Cancelled == Returned /\ sp.result.error = "User cancelled"

\* C11: the three split sizes sum to the number of pairs kept, and the
\* slices handed to copy_files have exactly these sizes and together are
\* the kept list.
C11_SizesSumToTotal ==
    /\ Planned =>
          /\ sp.total = Len(sp.pairs)
          /\ sp.train_size >= 0 /\ sp.val_size >= 0 /\ sp.test_size >= 0
          /\ sp.train_size + sp.val_size + sp.test_size = sp.total
    /\ Sliced =>
          /\ Len(sp.slices[1]) = sp.train_size
          /\ Len(sp.slices[2]) = sp.val_size
          /\ Len(sp.slices[3]) = sp.test_size
          /\ sp.slices[1] \o sp.slices[2] \o sp.slices[3] = sp.pairs

\* a trimmed list cut into three slices, none of them empty, after both
\* products were rounded down
C11_Witness ==
    /\ sp.phase = "sliced"
    /\ sp.found > sp.max_total
    /\ sp.total = sp.max_total
    /\ sp.train_size > 0 /\ sp.val_size > 0 /\ sp.test_size > 0
    /\ sp.train_size * 100 < sp.total * sp.train_ratio
    /\ sp.val_size * 100 < sp.total * sp.val_ratio

\* C12: split_dataset keeps min(number of valid pairs, cap) pairs and takes
\* train_size = floor(total * train_ratio), val_size = floor(total *
\* val_ratio) and the remainder as test; 1000 pairs with (0.70, 0.15, 0.15)
\* and cap 1786 give 700, 150 and 150.
C12_SizesAreFloors ==
    Planned =>
        /\ sp.total = Min(sp.found, sp.max_total)
        /\ sp.train_size = FloorTimes(sp.total, sp.train_ratio)
        /\ sp.val_size = FloorTimes(sp.total, sp.val_ratio)
        /\ sp.test_size = sp.total - sp.train_size - sp.val_size
        /\ (/\ sp.found = 1000
            /\ <<sp.train_ratio, sp.val_ratio, sp.test_ratio>> = <<70, 15, 15>>
            /\ sp.max_total = DEFAULT_MAX_TOTAL
            => <<sp.train_size, sp.val_size, sp.test_size>> = <<700, 150, 150>>)

\* C13: when split_dataset returns 'User cancelled', the output root is as it
\* was before the call; the root is removed only by a call that goes on to
\* fill it again.
C13_CancelLeavesOutput ==
    /\ Cancelled => sp.output = sp.output0 /\ ~sp.removed
    /\ Returned /\ sp.removed => sp.result.success

\* C14: a failed copy of one pair is counted and the loop goes on: each call
\* of copy_files returns copied + failed = len(pairs), every kept pair is
\* attempted once, and the result has train_count + val_count + test_count +
\* failed = total.
C14_FailuresCounted ==
    /\ sp.phase # "idle" =>
          \A i \in 1..Len(sp.counts) :
              sp.counts[i].copied + sp.counts[i].failed = sp.counts[i].pairs
    /\ sp.phase = "copying" =>
          sp.copied + sp.failed + Len(sp.todo) = Len(sp.slices[sp.split])
    /\ Returned /\ sp.result.success =>
          /\ sp.attempts = sp.pairs
          /\ sp.result.train_count + sp.result.val_count + sp.result.test_count
               + sp.result.failed = sp.total

\* the first pair of the train slice failed and the second was copied
C14_Witness ==
    /\ Returned /\ sp.result.success
    /\ sp.layout = "disjoint"
    /\ sp.result.failed = 1
    /\ Len(sp.slices[1]) >= 2
    /\ sp.slices[1][1][1] \notin sp.output.images["train"]
    /\ sp.slices[1][2][1] \in sp.output.images["train"]
    /\ sp.slices[1][2][2] \in sp.output.labels["train"]

\* C15: split_dataset leaves source_image_dir and source_label_dir as they
\* were, whatever the configuration and the outcome.
C15_SourcesUntouched ==
    sp.phase # "idle" =>
        /\ sp.source_images = sp.source_images0
        /\ sp.source_labels = sp.source_labels0

InOutput(tree, name) ==
    [images |-> tree.images[name], labels |-> tree.labels[name]]

\* C16: every pair listed is an image with a supported extension and its
\* existing label; only files of listed pairs are copied; after a split with
\* failed = 0 the integrity check of each split directory finds no orphan.
C16_OnlyMatchedSplit ==
    /\ Planned \/ (Returned /\ sp.result.success) =>
          \A i \in 1..Len(sp.pairs) :
              /\ sp.pairs[i][1] \in Range(sp.source_images0)
              /\ Lower(sp.pairs[i][1].ext) \in IMG_EXTS
              /\ sp.pairs[i][2] \in sp.source_labels0
              /\ sp.pairs[i][2] = File(sp.pairs[i][1].stem, TXT_EXT)
    /\ Sliced \/ (Returned /\ sp.result.success) =>
          \A name \in SplitNames :
              /\ sp.output.images[name] \subseteq {q[1] : q \in Range(sp.pairs)}
              /\ sp.output.labels[name] \subseteq {q[2] : q \in Range(sp.pairs)}
    /\ Returned /\ sp.result.success /\ sp.result.failed = 0 =>
          \A name \in SplitNames :
              LET dir == InOutput(sp.output, name)
                  img_bases == FileMapKeys(dir.images, IMG_EXTS)
                  lbl_bases == FileMapKeys(dir.labels, {TXT_EXT})
              IN  /\ OrphanImages(img_bases, lbl_bases) = {}
                  /\ OrphanLabels(img_bases, lbl_bases) = {}
                  /\ Cardinality(ValidPairs(img_bases, lbl_bases)) <= sp.total

\* a source with an image that has no label and a label that has no image,
\* split without failure into a train and a test directory that hold files
C16_Witness ==
    /\ Returned /\ sp.result.success /\ sp.result.failed = 0
    /\ \E f \in Range(sp.source_images0) : IsImage(f) /\ LabelOf(f) \notin sp.source_labels0
    /\ \E l \in sp.source_labels0 : \A f \in Range(sp.source_images0) : LabelOf(f) # l
    /\ sp.output.images["train"] # {}
    /\ sp.output.images["test"] # {}

----------------------------------------------------------------------------
(* merge.py.  A source root is a path, the sequence of its components.     *)

MaxSources == 2     \* source roots passed to one call of merge_datasets

\* image_extensions of merge_datasets
MERGE_IMG_EXTS == {".jpg", ".jpeg", ".png", ".bmp", ".tif", ".tiff"}

SourceRoots == {<<"phone_dataset", "train">>, <<"book_dataset", "train">>,
                <<"phone_dataset", "val">>, <<"phone">>, <<"book">>}

\* Path(source).parent.name: the name of the directory that holds the
\* root, empty for a root given as a single name
ParentName(path) == IF Len(path) >= 2 THEN path[Len(path) - 1] ELSE ""

\* the images and labels folders of a source root
MergeDir(exists, imgs, lbls) == [exists |-> exists, images |-> imgs, labels |-> lbls]

MergeDirs ==
    {MergeDir(FALSE, {}, {}),
     MergeDir(TRUE, {File(RawName("x"), ".jpg")}, {File(RawName("x"), ".txt")}),
     MergeDir(TRUE, {File(RawName("x"), ".jpg"), File(RawName("y"), ".png")},
              {File(RawName("x"), ".txt"), File(RawName("y"), ".txt")}),
     MergeDir(TRUE, {File(RawName("x"), ".png"), File(RawName("y"), ".bmp")},
              {File(RawName("y"), ".txt")}),
     MergeDir(TRUE, {File(RawName("x"), ".jpg"), File(RawName("x"), ".png")},
              {File(RawName("x"), ".txt")})}

\* the orders in which a set can be iterated
SeqsOf(S) == {f \in [1..Cardinality(S) -> S] : \A i, j \in 1..Cardinality(S) :
                                                  f[i] = f[j] => i = j}

\* lbl_folder.glob('*.txt')
GlobTxt(directory) == {f \in directory : f.ext = TXT_EXT}

\* matched_stems of one source
MatchedStems(dir) ==
    FileMapKeys(dir.images, MERGE_IMG_EXTS) \cap {f.stem : f \in GlobTxt(dir.labels)}

\* the tasks one source adds to all_tasks: one per matched stem, in the order
\* the set is iterated, with the image that image_files kept for the stem
TasksOf(source, dir) ==
    {[i \in 1..Len(order) |->
         [source |-> source, img |-> image_files[order[i]],
          lbl |-> File(order[i], TXT_EXT), dataset_name |-> ParentName(source)]] :
       image_files \in GetFileMap(dir.images, MERGE_IMG_EXTS),
       order \in SeqsOf(MatchedStems(dir))}

\* "Step 1": the loop over source_datasets; a root that does not exist is skipped
RECURSIVE Gather(_, _)
Gather(sources, dirs) ==
    IF sources = <<>> THEN {<<>>}
    ELSE LET source == Head(sources)
             rest == Gather(Tail(sources), dirs)
         IN  IF ~dirs[source].exists THEN rest
             ELSE {t \o r : t \in TasksOf(source, dirs[source]), r \in rest}

\* new_stem = f"{dataset_name}_{img_path.stem}" if add_prefix else img_path.stem
NewStem(task, add_prefix) ==
    IF add_prefix THEN <<Tok(task.dataset_name, 0, 0)>> \o task.img.stem
    ELSE task.img.stem

\* a file of the destination: its name and the source file it is a copy of
PutFile(folder, name, origin) ==
    [n \in DOMAIN folder \cup {name} |-> IF n = name THEN origin ELSE folder[n]]

MergeCall(sources, dirs, add_prefix) ==
    [phase |-> "called", sources |-> sources, dirs |-> dirs, add_prefix |-> add_prefix,
     output_images |-> <<>>, output_labels |-> <<>>, all_tasks |-> <<>>,
     total_files |-> 0, i |-> 1, errors |-> 0, crashed |-> FALSE, result |-> 0,
     img_count |-> 0, lbl_count |-> 0]

mergeOthers == <<fsvars, g, sp, ic, rd, bt, pl>>

\* merge_datasets up to "total_files = len(all_tasks)"
MergeGather ==
    /\ mg.phase = "called"
    /\ \E all_tasks \in Gather(mg.sources, mg.dirs) :
         /\ all_tasks # <<>>
         /\ mg' = [mg EXCEPT !.phase = "copying", !.all_tasks = all_tasks,
                             !.total_files = Len(all_tasks)]
    /\ UNCHANGED mergeOthers

\* "if total_files == 0: return 0"
MergeNothing ==
    /\ mg.phase = "called"
    /\ <<>> \in Gather(mg.sources, mg.dirs)
    /\ mg' = [mg EXCEPT !.phase = "returned", !.result = 0]
    /\ UNCHANGED mergeOthers

\* one iteration of "Step 2": the image is copied, then the label; an error
\* of a copy leaves merge_datasets as an exception
MergeCopy ==
    /\ mg.phase = "copying"
    /\ mg.i <= mg.total_files
    /\ LET task == mg.all_tasks[mg.i]
           new_stem == NewStem(task, mg.add_prefix)
       IN  \E outcome \in {"ok"} \cup (IF mg.errors < MaxErrors
                                       THEN {"image_error", "copy_error"} ELSE {}) :
             mg' = [mg EXCEPT
                      !.output_images =
                          IF outcome = "image_error" THEN @
                          ELSE PutFile(@, File(new_stem, task.img.ext),
                                       <<task.source, task.img>>),
                      !.output_labels =
                          IF outcome = "ok"
                          THEN PutFile(@, File(new_stem, TXT_EXT), <<task.source, task.lbl>>)
                          ELSE @,
                      !.i = IF outcome = "ok" THEN @ + 1 ELSE @,
                      !.errors = IF outcome = "ok" THEN @ ELSE @ + 1,
                      !.crashed = outcome # "ok",
                      !.phase = IF outcome = "ok" THEN "copying" ELSE "raised"]
    /\ UNCHANGED mergeOthers

\* "return total_files"
MergeReturn ==
    /\ mg.phase = "copying"
    /\ mg.i > mg.total_files
    /\ mg' = [mg EXCEPT !.phase = "returned", !.result = mg.total_files]
    /\ UNCHANGED mergeOthers

\* verify_merged_dataset(dest), called when the total is positive
VerifyMergedDataset ==
    /\ mg.phase = "returned"
    /\ mg.result > 0
    /\ mg' = [mg EXCEPT !.phase = "verified",
                        !.img_count = Cardinality(DOMAIN mg.output_images),
                        !.lbl_count = Cardinality(GlobTxt(DOMAIN mg.output_labels))]
    /\ UNCHANGED mergeOthers

\* lists of distinct source roots
SourceLists ==
    UNION {{f \in [1..n -> SourceRoots] : \A i, j \in 1..n : f[i] = f[j] => i = j} :
             n \in 1..MaxSources}

MergeInit ==
    /\ FsFrozen
    /\ g = GeomIdle /\ sp = SplitIdle /\ ic = CheckIdle /\ rd = ReaderIdle /\ MoreIdle
    /\ \E sources \in SourceLists, add_prefix \in BOOLEAN :
         \E dirs \in [Range(sources) -> MergeDirs] :
            mg = MergeCall(sources, dirs, add_prefix)

MergeNext == MergeGather \/ MergeNothing \/ MergeCopy \/ MergeReturn \/ VerifyMergedDataset

SpecMerge == MergeInit /\ [][MergeNext]_vars

\* the matched pairs of the sources that exist
RECURSIVE SourceCount(_, _)
SourceCount(sources, dirs) ==
    IF sources = <<>> THEN 0
    ELSE (IF dirs[Head(sources)].exists
          THEN Cardinality(MatchedStems(dirs[Head(sources)])) ELSE 0)
         + SourceCount(Tail(sources), dirs)

\* C17: with add_prefix, distinct (source, base name) pairs of distinct
\* source roots get distinct destination base names, and the destination
\* ends with as many images as labels, as many as the matched pairs of the
\* sources, which is the value returned.
C17_PrefixedNamesDistinct ==
    mg.phase \in {"returned", "verified"} /\ mg.add_prefix =>
        /\ \A i, j \in 1..Len(mg.all_tasks) :
              i # j => NewStem(mg.all_tasks[i], TRUE) # NewStem(mg.all_tasks[j], TRUE)
        /\ mg.result = SourceCount(mg.sources, mg.dirs)
        /\ Cardinality(DOMAIN mg.output_images) = mg.result
        /\ Cardinality(DOMAIN mg.output_labels) = mg.result
        /\ (mg.phase = "verified" => mg.img_count = mg.lbl_count /\ mg.img_count = mg.result)

----------------------------------------------------------------------------
(* match.py main: the integrity check and its repair *)

\* the loop ends at the first file that cannot be removed
StopAfterOSError(rest) == {}

\* "except OSError": the loop goes on with the orphans that remain
AfterOSError(rest) == rest

CheckCall(dirs_exist, image_dir, label_dir) ==
    [phase |-> "called", dirs_exist |-> dirs_exist, image_dir |-> image_dir,
     label_dir |-> label_dir, img_map |-> <<>>, lbl_map |-> <<>>,
     orphan_images |-> {}, orphan_labels |-> {}, valid_pairs |-> {},
     choice |-> "", mode |-> "", todo_images |-> {}, todo_labels |-> {},
     deleted_count |-> 0, errors |-> 0, attempts |-> <<>>,
     image_dir0 |-> image_dir, label_dir0 |-> label_dir]

checkOthers == <<fsvars, g, sp, mg, rd, bt, pl>>

\* "Directories not found"
CheckDirsMissing ==
    /\ ic.phase = "called"
    /\ ~ic.dirs_exist
    /\ ic' = [ic EXCEPT !.phase = "returned"]
    /\ UNCHANGED checkOthers

\* main from the mapping of the files to the report: the check passes when
\* there is no orphan
CheckScan ==
    /\ ic.phase = "called"
    /\ ic.dirs_exist
    /\ \E img_map \in GetFileMap(ic.image_dir, IMG_EXTS),
          lbl_map \in GetFileMap(ic.label_dir, {TXT_EXT}) :
         LET img_bases == DOMAIN img_map
             lbl_bases == DOMAIN lbl_map
             orphan_images == OrphanImages(img_bases, lbl_bases)
             orphan_labels == OrphanLabels(img_bases, lbl_bases)
         IN  ic' = [ic EXCEPT !.phase = IF orphan_images = {} /\ orphan_labels = {}
                                        THEN "passed" ELSE "menu",
                              !.img_map = img_map, !.lbl_map = lbl_map,
                              !.orphan_images = orphan_images,
                              !.orphan_labels = orphan_labels,
                              !.valid_pairs = ValidPairs(img_bases, lbl_bases)]
    /\ UNCHANGED checkOthers

\* the action menu: '1', an input that is no action, and an input() that
\* raises all return; '2', '3' and '4' select the mode
CheckChoose ==
    /\ ic.phase = "menu"
    /\ \E choice \in {"1", "2", "3", "4", "other", "EOF"} :
         LET mode == IF choice = "2" THEN "img_only"
                     ELSE IF choice = "3" THEN "lbl_only"
                     ELSE IF choice = "4" THEN "all" ELSE ""
         IN  ic' = [ic EXCEPT !.phase = IF mode = "" THEN "returned" ELSE "cleaning",
                              !.choice = choice, !.mode = mode,
                              !.todo_images = IF mode \in {"img_only", "all"}
                                              THEN ic.orphan_images ELSE {},
                              !.todo_labels = IF mode \in {"lbl_only", "all"}
                                              THEN ic.orphan_labels ELSE {}]
    /\ UNCHANGED checkOthers

\* one iteration of "Delete Orphan Images"
DeleteOrphanImage ==
    /\ ic.phase = "cleaning"
    /\ \E base \in ic.todo_images, removed \in BOOLEAN :
         /\ ~removed => ic.errors < MaxErrors
         /\ ic' = [ic EXCEPT
                     !.image_dir = IF removed THEN @ \ {ic.img_map[base]} ELSE @,
                     !.deleted_count = IF removed THEN @ + 1 ELSE @,
                     !.errors = IF removed THEN @ ELSE @ + 1,
                     !.attempts = Append(@, [file |-> ic.img_map[base],
                                             removed |-> removed]),
                     !.todo_images = IF removed THEN @ \ {base}
                                     ELSE AfterOSError(@ \ {base})]
    /\ UNCHANGED checkOthers

\* one iteration of "Delete Orphan Labels", after the loop over the images
DeleteOrphanLabel ==
    /\ ic.phase = "cleaning"
    /\ ic.todo_images = {}
    /\ \E base \in ic.todo_labels, removed \in BOOLEAN :
         /\ ~removed => ic.errors < MaxErrors
         /\ ic' = [ic EXCEPT
                     !.label_dir = IF removed THEN @ \ {ic.lbl_map[base]} ELSE @,
                     !.deleted_count = IF removed THEN @ + 1 ELSE @,
                     !.errors = IF removed THEN @ ELSE @ + 1,
                     !.attempts = Append(@, [file |-> ic.lbl_map[base],
                                             removed |-> removed]),
                     !.todo_labels = IF removed THEN @ \ {base}
                                     ELSE AfterOSError(@ \ {base})]
    /\ UNCHANGED checkOthers

\* "CLEANUP COMPLETE"
CheckCleaned ==
    /\ ic.phase = "cleaning"
    /\ ic.todo_images = {}
    /\ ic.todo_labels = {}
    /\ ic' = [ic EXCEPT !.phase = "cleaned"]
    /\ UNCHANGED checkOthers

CheckImageFiles == {File(RawName("a"), ".jpg"), File(RawName("b"), ".JPG"),
                    File(RawName("c"), ".png"), File(RawName("c"), ".jpg"),
                    File(RawName("n"), ".txt")}

CheckLabelFiles == {File(RawName("a"), ".txt"), File(RawName("b"), ".txt"),
                    File(RawName("d"), ".txt"), File(RawName("e"), ".txt")}

CheckInit ==
    /\ FsFrozen
    /\ g = GeomIdle /\ sp = SplitIdle /\ mg = MergeIdle /\ rd = ReaderIdle /\ MoreIdle
    /\ \/ ic = CheckCall(FALSE, {}, {})
       \/ \E image_dir \in SUBSET CheckImageFiles, label_dir \in SUBSET CheckLabelFiles :
            ic = CheckCall(TRUE, image_dir, label_dir)

CheckNext ==
    \/ CheckDirsMissing \/ CheckScan \/ CheckChoose \/ DeleteOrphanImage
    \/ DeleteOrphanLabel \/ CheckCleaned

SpecCheck == CheckInit /\ [][CheckNext]_vars

----------------------------------------------------------------------------
(* Properties of match.py *)

Scanned == ic.phase \in {"passed", "menu", "cleaning", "cleaned"}
   \/ (ic.phase = "returned" /\ ic.dirs_exist)

\* the base names of the files of a directory with one of the extensions
BasesIn(directory, extensions) ==
    {f.stem : f \in {x \in directory : Lower(x.ext) \in extensions}}

\* C18: with I the image base names and L the label base names, the check
\* computes orphan_images = I \ L, orphan_labels = L \ I, valid_pairs = I
\* intersect L; the three sets are pairwise disjoint and cover I union L;
\* images {a, b, c} with labels {a, b} give orphan_images {c} and no orphan
\* label.
C18_OrphansPartition ==
    Scanned =>
        LET I == BasesIn(ic.image_dir0, IMG_EXTS)
            L == BasesIn(ic.label_dir0, {TXT_EXT})
        IN  /\ ic.orphan_images = {b \in I : b \notin L}
            /\ ic.orphan_labels = {b \in L : b \notin I}
            /\ ic.valid_pairs = {b \in I : b \in L}
            /\ ic.orphan_images \cap ic.orphan_labels = {}
            /\ ic.orphan_images \cap ic.valid_pairs = {}
            /\ ic.orphan_labels \cap ic.valid_pairs = {}
            /\ ic.orphan_images \cup ic.orphan_labels \cup ic.valid_pairs = I \cup L
            /\ (I = {RawName("a"), RawName("b"), RawName("c")}
                /\ L = {RawName("a"), RawName("b")}
                => ic.orphan_images = {RawName("c")} /\ ic.orphan_labels = {})

\* images a, b, c and labels a, b have been scanned
C18_Witness ==
    /\ ic.phase = "menu"
    /\ BasesIn(ic.image_dir0, IMG_EXTS) = {RawName("a"), RawName("b"), RawName("c")}
    /\ BasesIn(ic.label_dir0, {TXT_EXT}) = {RawName("a"), RawName("b")}
    /\ ic.orphan_images = {RawName("c")}
    /\ ic.orphan_labels = {}
    /\ ic.valid_pairs = {RawName("a"), RawName("b")}

DeletedImages == ic.image_dir0 \ ic.image_dir
DeletedLabels == ic.label_dir0 \ ic.label_dir

\* C19: the repair removes only files of the selected orphan sets (choice 2
\* orphan images, choice 3 orphan labels, choice 4 both, any other choice
\* nothing), never a file of a valid pair, and after a removal that fails it
\* still tries every remaining orphan.
C19_RepairDeletesOnlyOrphans ==
    ic.phase # "idle" =>
        /\ ic.image_dir \subseteq ic.image_dir0
        /\ ic.label_dir \subseteq ic.label_dir0
        /\ \A f \in DeletedImages :
              /\ f.stem \in ic.orphan_images
              /\ Lower(f.ext) \in IMG_EXTS
              /\ ic.choice \in {"2", "4"}
        /\ \A f \in DeletedLabels :
              /\ f.stem \in ic.orphan_labels
              /\ Lower(f.ext) = TXT_EXT
              /\ ic.choice \in {"3", "4"}
        /\ \A f \in DeletedImages \cup DeletedLabels : f.stem \notin ic.valid_pairs
        /\ ic.phase = "cleaned" =>
              /\ ic.choice \in {"2", "4"} =>
                    {ic.attempts[i].file.stem :
                        i \in {k \in 1..Len(ic.attempts) :
                                 Lower(ic.attempts[k].file.ext) \in IMG_EXTS}}
                    = ic.orphan_images
              /\ ic.choice \in {"3", "4"} =>
                    {ic.attempts[i].file.stem :
                        i \in {k \in 1..Len(ic.attempts) :
                                 Lower(ic.attempts[k].file.ext) = TXT_EXT}}
                    = ic.orphan_labels
              /\ Len(ic.attempts) = Cardinality(IF ic.choice \in {"2", "4"}
                                                THEN ic.orphan_images ELSE {})
                                    + Cardinality(IF ic.choice \in {"3", "4"}
                                                  THEN ic.orphan_labels ELSE {})
              /\ ic.deleted_count + ic.errors = Len(ic.attempts)
              /\ ic.deleted_count = Cardinality(DeletedImages \cup DeletedLabels)

\* choice 4: the removal of an orphan image failed, and an orphan image and
\* an orphan label were removed after it, next to a valid pair
C19_Witness ==
    /\ ic.phase = "cleaned"
    /\ ic.choice = "4"
    /\ ic.valid_pairs # {}
    /\ Len(ic.attempts) >= 3
    /\ ~ic.attempts[1].removed
    /\ ic.attempts[2].removed /\ Lower(ic.attempts[2].file.ext) \in IMG_EXTS
    /\ ic.attempts[3].removed /\ ic.attempts[3].file.ext = TXT_EXT

----------------------------------------------------------------------------
(* The label readers: parse_label_file of occlusion.py and the loop that    *)
(* reads the labels in the compound generators (dark_occlusion.py,         *)
(* brightness_occlusion.py, bright_blur_occlusion.py,                      *)
(* apply_triple_threat.py).  A line is the list line.strip().split() of    *)
(* its tokens; a token is an integer literal, a float literal or a word.   *)
(* The value of a float literal is given as a numerator over Den.          *)

MaxLines == 2       \* lines of a label file

Token(kind, val) == [kind |-> kind, val |-> val]
I(n) == Token("int", n)
F(n) == Token("float", n)
Word == Token("word", 0)

LabelLines ==
    {<<>>,
     <<I(0), F(1), F(2), F(3)>>,
     <<I(0), F(1), F(2), F(3), F(4)>>,
     <<I(1), I(0), I(1), I(1), I(1)>>,
     <<I(2), F(1), F(2), F(3), F(4), Word>>,
     <<Word, F(1), F(2), F(3), F(4)>>,
     <<F(0), F(1), F(2), F(3), F(4)>>,
     <<I(3), F(1), Word, F(3), F(4)>>,
     <<I(-1), F(1), F(2), F(3), F(4)>>,
     <<I(0), F(Den + 1), F(2), F(3), F(4)>>,
     <<I(0), F(1), F(2), F(-1), F(4)>>}

LabelFiles == UNION {[1..n -> LabelLines] : n \in 0..MaxLines}

\* int(s) raises ValueError unless s is an integer literal
IntRaises(tok) == tok.kind # "int"
\* float(s) raises ValueError unless s is a number
FloatRaises(tok) == tok.kind \notin {"int", "float"}

\* the conversions of one line with at least 5 tokens raise ValueError
LineRaises(parts) ==
    IntRaises(parts[1]) \/ \E k \in 2..5 : FloatRaises(parts[k])

\* float(s) of a number, as a numerator over Den
FloatOf(tok) == IF tok.kind = "int" THEN tok.val * Den ELSE tok.val

\* [cls] + coords
BoxOf(parts) ==
    <<parts[1].val, FloatOf(parts[2]), FloatOf(parts[3]), FloatOf(parts[4]),
      FloatOf(parts[5])>>

ReaderCall(reader, exists, lines) ==
    [phase |-> "reading", reader |-> reader, exists |-> exists, lines |-> lines,
     pos |-> 1, boxes |-> <<>>, raised |-> FALSE, skipped_file |-> FALSE]

readerOthers == <<fsvars, g, sp, mg, ic, bt, pl>>

\* "if not os.path.exists(lbl_path): return boxes" in parse_label_file,
\* "if not os.path.exists(lbl_p): continue" in the generators
ReadMissing ==
    /\ rd.phase = "reading"
    /\ ~rd.exists
    /\ rd' = [rd EXCEPT !.phase = "done", !.skipped_file = (rd.reader = "inline")]
    /\ UNCHANGED readerOthers

\* one iteration of "for line in f": parse_label_file catches the
\* ValueError of a conversion and goes on; the generators have no handler,
\* in the loop over the lines or in the loop over the files
ReadLine ==
    /\ rd.phase = "reading"
    /\ rd.exists
    /\ rd.pos <= Len(rd.lines)
    /\ LET parts == rd.lines[rd.pos]
       IN  IF Len(parts) < 5
           THEN rd' = [rd EXCEPT !.pos = @ + 1]
           ELSE IF ~LineRaises(parts)
           THEN rd' = [rd EXCEPT !.pos = @ + 1, !.boxes = Append(@, BoxOf(parts))]
           ELSE IF rd.reader = "parse_label_file"
           THEN rd' = [rd EXCEPT !.pos = @ + 1]
           ELSE rd' = [rd EXCEPT !.phase = "raised", !.raised = TRUE]
    /\ UNCHANGED readerOthers

\* the end of the file: the boxes are returned
ReadReturn ==
    /\ rd.phase = "reading"
    /\ rd.exists
    /\ rd.pos > Len(rd.lines)
    /\ rd' = [rd EXCEPT !.phase = "done"]
    /\ UNCHANGED readerOthers

ReaderInit ==
    /\ FsFrozen
    /\ g = GeomIdle /\ sp = SplitIdle /\ mg = MergeIdle /\ ic = CheckIdle /\ MoreIdle
    /\ \E reader \in {"parse_label_file", "inline"} :
         \/ rd = ReaderCall(reader, FALSE, <<>>)
         \/ \E lines \in LabelFiles : rd = ReaderCall(reader, TRUE, lines)

ReaderNext == ReadMissing \/ ReadLine \/ ReadReturn

SpecReader == ReaderInit /\ [][ReaderNext]_vars

\* a line with a class and four coordinates that are numbers
WellFormed(parts) ==
    /\ Len(parts) >= 5
    /\ parts[1].kind = "int"
    /\ \A k \in 2..5 : parts[k].kind \in {"int", "float"}

RECURSIVE BoxesOfLines(_)
BoxesOfLines(lines) ==
    IF lines = <<>> THEN <<>>
    ELSE (IF WellFormed(Head(lines)) THEN <<BoxOf(Head(lines))>> ELSE <<>>)
         \o BoxesOfLines(Tail(lines))

\* C20: every label reader skips a line with fewer than 5 tokens or with a
\* token that is not a number and goes on: no line makes the read raise, and
\* the boxes returned are the well-formed lines of the file in their order.
C20_MalformedLinesSkipped ==
    rd.phase # "idle" =>
        /\ ~rd.raised
        /\ rd.boxes = BoxesOfLines(SubSeq(rd.lines, 1, rd.pos - 1))
        /\ (rd.phase = "done" /\ rd.exists => rd.boxes = BoxesOfLines(rd.lines))

----------------------------------------------------------------------------
(* The worked example of the ellipse variant                               *)

\* C21: for the box [0, 0.5, 0.5, 0.2, 0.2] on a 100x100 image the pixel
\* bounds are (40,40,60,60) and obj_w = obj_h = 20, and with ratio 0.5 the
\* ellipse variant of apply_occlusion paints a shape of radius 8, diameter 16.
C21_WorkedEllipse ==
    (g.phase \in {"bounds", "done"} /\ g.den = 20 /\ g.box = <<0, 10, 10, 4, 4>>
        /\ g.img_w = 100 /\ g.img_h = 100)
    => /\ g.bounds = <<40, 40, 60, 60>>
       /\ g.obj_w = 20
       /\ g.obj_h = 20
       /\ (g.phase = "done" /\ g.shape = "circle" /\ g.ratio = 50)
          => (g.occ_w = 16 /\ g.occ_h = 16 /\ ~g.raised
              /\ \E s \in g.painted : s.x1 - s.x0 = 2 * 8)

----------------------------------------------------------------------------
(* Counts returned by the batch operations                                 *)

\* C28: the counts of a batch run account for every snapshot entry exactly
\* once: in run_augmentation created + skipped + failed is the number of
\* snapshot images, in blur_dataset processed + failed is input_count; during
\* the loop the counts add up to the number of entries visited so far.
C28_CountsCoverSnapshot ==
    /\ op = "occlusion" =>
          success_count + skip_count + fail_count = Cardinality(files_to_process \ todo)
    /\ op = "blur" =>
          success_count + fail_count = Cardinality(files_to_process \ todo)
    /\ (Finished /\ result.op = "occlusion") =>
          result.processed + skip_count + result.failed = Cardinality(files_to_process)
    /\ (Finished /\ result.op = "blur") =>
          /\ result.processed + result.failed = result.input_count
          /\ result.input_count = Cardinality(files_to_process)

\* a finished run_augmentation that created, skipped and failed
C28_Witness ==
    /\ Finished
    /\ result.op = "occlusion"
    /\ result.processed >= 1
    /\ skip_count >= 1
    /\ result.failed >= 1
    /\ Cardinality(files_to_process) = 3

\* C29: the total_files returned by blur_dataset is the number of image
\* files present in the image directory after the run (stated for the runs
\* in which no file fails).
C29_TotalFilesIsDirectorySize ==
    (Finished /\ result.op = "blur" /\ io_errors = 0) =>
        result.total_files = CountImages(images)


----------------------------------------------------------------------------
(* The integrity check run again after a repair                            *)

\* C30: after the repair with choice 4 in which no deletion failed, a second
\* integrity check of the same directories finds no orphan image and no
\* orphan label.
C30_SecondCheckFindsNoOrphans ==
    (ic.phase = "cleaned" /\ ic.choice = "4" /\ ic.errors = 0) =>
        LET img_bases == FileMapKeys(ic.image_dir, IMG_EXTS)
            lbl_bases == FileMapKeys(ic.label_dir, {TXT_EXT})
        IN  /\ OrphanImages(img_bases, lbl_bases) = {}
            /\ OrphanLabels(img_bases, lbl_bases) = {}


----------------------------------------------------------------------------
(* The output root after a split                                           *)

\* the base names of the samples of one split directory of the output root
BasesOfSplit(tree, name) ==
    {f.stem : f \in tree.images[name] \cup tree.labels[name]}

\* C25: after a split_dataset call that proceeds with failed = 0 the output
\* root holds exactly the pairs of this call: every split directory holds the
\* files of its slice, the slices are contiguous, disjoint and cover the
\* list, no base name occurs in two splits, and nothing of a previous content
\* of the output root remains.
C25_OutputIsThisSplit ==
    (Returned /\ sp.result.success /\ sp.result.failed = 0) =>
        /\ \A k \in 1..Len(Splits) :
              /\ sp.output.images[Splits[k]] = {q[1] : q \in Range(sp.slices[k])}
              /\ sp.output.labels[Splits[k]] = {q[2] : q \in Range(sp.slices[k])}
        /\ sp.slices[1] \o sp.slices[2] \o sp.slices[3] = sp.pairs
        /\ \A i, j \in 1..Len(sp.pairs) : i # j => sp.pairs[i] # sp.pairs[j]
        /\ \A s, t \in SplitNames :
              s # t => BasesOfSplit(sp.output, s) \cap BasesOfSplit(sp.output, t) = {}
        /\ \A s \in SplitNames :
              /\ sp.output.images[s] \cap sp.output0.images[s] = {}
              /\ sp.output.labels[s] \cap sp.output0.labels[s] = {}


----------------------------------------------------------------------------
(* The boxes handed to the occlusion step                                  *)

\* class_id >= 0 and the four coordinates in [0, 1]
BoxInvariant(box) ==
    /\ box[1] >= 0
    /\ \A k \in 2..5 : 0 <= box[k] /\ box[k] <= Den

\* C24: every box parse_label_file returns to the occlusion step satisfies
\* the Box invariant (class_id >= 0, the four coordinates in [0,1]); a line
\* violating it is never turned into a box.
C24_ReturnedBoxesInRange ==
    (rd.phase # "idle" /\ rd.reader = "parse_label_file") =>
        \A i \in 1..Len(rd.boxes) : BoxInvariant(rd.boxes[i])


----------------------------------------------------------------------------
(* brightness.py brightness_augment, mode "target".  The directories of    *)
(* the call are fields of bt; label_dir is the set of the base names that  *)
(* have a label file.                                                      *)

MaxTarget == 4      \* largest target_total
MaxOriginals == 2   \* source images of one call

\* No terminating call reaches this aug_num: a pass over the list that
\* generates nothing is followed by the same pass.
MaxAug == MaxTarget * MaxOriginals + 1

\* the values of the brightness factor, in hundredths: random.uniform(0.7, 1.3),
\* replaced by random.choice([0.8, 1.2]) when it lies in (0.95, 1.05)
TargetLevels == {80, 130}

NoTargetResult == [success |-> FALSE, error |-> "", generated |-> 0, total_images |-> 0]

TargetCall(dirs_exist, image_dir, label_dir, skip_augmented, target_total, interactive) ==
    [phase |-> "called", dirs_exist |-> dirs_exist, image_dir |-> image_dir,
     label_dir |-> label_dir, skip_augmented |-> skip_augmented,
     target_total |-> target_total, interactive |-> interactive,
     original_images |-> <<>>, total_current |-> 0, needed |-> 0, generated |-> 0,
     aug_num |-> 1, rest |-> <<>>, errors |-> 0, result |-> NoTargetResult,
     image_dir0 |-> image_dir]

targetOthers == <<fsvars, g, sp, mg, ic, rd, pl>>

\* "Image directory not found" / "Label directory not found"
TargetDirsMissing ==
    /\ bt.phase = "called"
    /\ ~bt.dirs_exist
    /\ bt' = [bt EXCEPT !.phase = "returned",
                        !.result = [NoTargetResult EXCEPT !.error = "directory not found"]]
    /\ UNCHANGED targetOthers

\* brightness_augment from the listing of the images to "needed": the call
\* returns when the target is already met
TargetStart ==
    /\ bt.phase = "called"
    /\ bt.dirs_exist
    /\ \E original_images \in SeqsOf(GetAllImages(bt.image_dir, bt.skip_augmented)) :
         LET total_current == CountImages(bt.image_dir)
             needed == bt.target_total - total_current
         IN  bt' = [bt EXCEPT !.phase = IF needed <= 0 THEN "returned" ELSE "ready",
                              !.original_images = original_images,
                              !.total_current = total_current,
                              !.needed = needed,
                              !.result = IF needed <= 0
                                         THEN [NoTargetResult EXCEPT
                                                 !.success = TRUE,
                                                 !.total_images = total_current]
                                         ELSE @]
    /\ UNCHANGED targetOthers

\* interactive and the answer to "Proceed?" is not 'y'
TargetCancelled ==
    /\ bt.phase = "ready"
    /\ bt.interactive
    /\ bt' = [bt EXCEPT !.phase = "returned",
                        !.result = [NoTargetResult EXCEPT !.error = "User cancelled"]]
    /\ UNCHANGED targetOthers

\* "while generated < needed": the for loop over original_images starts, or
\* the loop ends and the call returns
TargetWhile ==
    /\ bt.phase \in {"ready", "while"}
    /\ IF bt.generated < bt.needed
       THEN bt' = [bt EXCEPT !.phase = "for", !.rest = bt.original_images]
       ELSE bt' = [bt EXCEPT !.phase = "returned",
                             !.result = [success |-> TRUE, error |-> "",
                                         generated |-> bt.generated,
                                         total_images |-> CountImages(bt.image_dir)]]
    /\ UNCHANGED targetOthers

\* generate_brightness_augmentation(img_name, ...): False when the label is
\* absent; an error of the image or of the label copy raises
GenerateOutcomes(call, img) ==
    IF img \notin call.image_dir THEN {"absent"}
    ELSE IF img.stem \notin call.label_dir THEN {"no_label"}
    ELSE {"ok"} \cup (IF call.errors < MaxErrors THEN {"image_error", "copy_error"}
                     ELSE {})

\* one iteration of "for img_name in original_images" in the while loop
TargetStep ==
    /\ bt.phase = "for"
    /\ bt.rest # <<>>
    /\ bt.aug_num <= MaxAug
    /\ IF bt.generated >= bt.needed
       THEN bt' = [bt EXCEPT !.phase = "while", !.rest = <<>>]     \* break
       ELSE \E brightness \in TargetLevels, outcome \in GenerateOutcomes(bt, Head(bt.rest)) :
              LET img == Head(bt.rest)
                  stem == Append(img.stem, BrightSuffix(brightness, bt.aug_num))
                  saved == outcome \in {"ok", "copy_error"}
                  raised == outcome \in {"image_error", "copy_error"}
              IN  bt' = [bt EXCEPT
                           !.phase = IF raised THEN "raised" ELSE @,
                           !.image_dir = IF saved THEN @ \cup {File(stem, ".jpg")} ELSE @,
                           !.label_dir = IF outcome = "ok" THEN @ \cup {stem} ELSE @,
                           !.generated = IF outcome = "ok" THEN @ + 1 ELSE @,
                           !.aug_num = IF raised THEN @ ELSE @ + 1,
                           !.errors = IF raised THEN @ + 1 ELSE @,
                           !.rest = Tail(@)]
    /\ UNCHANGED targetOthers

\* the for loop has visited every entry of original_images
TargetForEnd ==
    /\ bt.phase = "for"
    /\ bt.rest = <<>>
    /\ bt' = [bt EXCEPT !.phase = "while"]
    /\ UNCHANGED targetOthers

TargetImageFiles ==
    {File(RawName("a"), ".jpg"), File(RawName("b"), ".JPG"),
     File(RawName("sun_bright"), ".jpg"),
     File(<<Tok("a", 0, 0), BrightSuffix(80, 1)>>, ".jpg"),
     File(<<Tok("a", 0, 0), BrightSuffix(80, 1), BlurSuffix>>, ".jpg"),
     File(RawName("n"), ".txt")}

TargetInit ==
    /\ FsFrozen
    /\ g = GeomIdle /\ sp = SplitIdle /\ mg = MergeIdle /\ ic = CheckIdle
    /\ rd = ReaderIdle /\ pl = PipelineIdle
    /\ \/ bt = TargetCall(FALSE, {}, {}, TRUE, 1, FALSE)
       \/ \E image_dir \in SUBSET TargetImageFiles, labelled \in SUBSET {"a", "b", "sun_bright"},
             skip_augmented \in BOOLEAN, target_total \in 0..MaxTarget,
             interactive \in BOOLEAN :
            /\ Cardinality(GetAllImages(image_dir, skip_augmented)) <= MaxOriginals
            /\ bt = TargetCall(TRUE, image_dir,
                               {f.stem : f \in {x \in image_dir : x.stem[1].kind \in labelled}},
                               skip_augmented, target_total, interactive)

TargetNext ==
    \/ TargetDirsMissing \/ TargetStart \/ TargetCancelled \/ TargetWhile
    \/ TargetStep \/ TargetForEnd

SpecTarget == TargetInit /\ [][TargetNext]_vars

\* the statements of the call are executed one after the other
SpecTargetLive == SpecTarget /\ WF_vars(TargetNext)

----------------------------------------------------------------------------
(* Properties of brightness_augment                                        *)

\* the name carries a suffix appended by the brightness stage
FromBrightness(f) == \E i \in 2..Len(f.stem) : f.stem[i].kind = "_bright"

\* C26: with skip_augmented = True the source images of brightness_augment
\* are exactly the images of image_dir that no brightness stage created: no
\* brightness variant, nor a blur or occlusion variant of one, is a source,
\* and every other image is.
C26_SourcesAreNotBrightened ==
    (bt.phase \notin {"idle", "called"} /\ bt.dirs_exist /\ bt.skip_augmented) =>
        Range(bt.original_images)
            = {f \in bt.image_dir0 : IsImage(f) /\ ~FromBrightness(f)}

TargetEnded == bt.phase \in {"returned", "raised"}

\* C27: every call of brightness_augment in mode 'target' terminates, and
\* when it returns success after generating, it generated exactly
\* target_total - total_current samples.
C27_TargetTerminates ==
    /\ <>TargetEnded
    /\ [](bt.phase = "returned" /\ bt.result.success /\ bt.result.generated > 0
          => bt.result.generated = bt.target_total - bt.total_current)


----------------------------------------------------------------------------
(* head.py run_pipeline.  A category has a source (images and labels) and  *)
(* an output tree; the split of the category runs in sp, and the stage     *)
(* that is applied to a directory of the tree runs on images and labels.   *)

\* head.py CATEGORIES
CATEGORIES == <<"book", "phone", "calculator">>

\* SPLIT_CONFIG_TEMPLATE: train_ratio, val_ratio, test_ratio in percent
SPLIT_CONFIG_RATIOS == <<70, 15, 15>>

\* a pipeline that gives the stages the test directory
AugmentedSplitTest == "test"

\* the split directory of the stage configurations: f"{output_dataset}/train/..."
AugmentedSplit == "train"

\* "continue": the loop goes on with the next category
AfterSkip(cat) == cat + 1

PipelineCall(sources, trees) ==
    [phase |-> "category", cat |-> 1, sources |-> sources, trees |-> trees,
     trees0 |-> trees, copied |-> [c \in 1..Len(CATEGORIES) |-> NoTree],
     status |-> [c \in 1..Len(CATEGORIES) |-> "pending"]]

\* the label files of a directory with their contents
LabelsOfTree(files) ==
    [stem \in {f.stem : f \in files} |-> [body |-> "A", eol |-> "LF"]]

\* images and labels become the directory imgs, lbls; no stage has run on it
StageDirectory(imgs, lbls) ==
    /\ images' = imgs
    /\ labels' = lbls
    /\ op' = "idle"
    /\ files_to_process' = {}
    /\ todo' = {}
    /\ cur' = File(<<>>, "")
    /\ lvl' = 1
    /\ success_count' = 0
    /\ fail_count' = 0
    /\ skip_count' = 0
    /\ aug_num' = 1
    /\ result' = NoResult
    /\ runs' = 0
    /\ io_errors' = 0
    /\ startImages' = {}
    /\ startLabels' = {}
    /\ written' = {}
    /\ writtenLabels' = {}
    /\ processed' = {}
    /\ revisited' = FALSE
    /\ UNCHANGED <<platform, crashed>>

pipelineOthers == <<g, mg, ic, rd, bt>>

\* "Skipping {category}: Source folder not found"
PipelineSourceMissing ==
    /\ pl.phase = "category"
    /\ pl.cat <= Len(CATEGORIES)
    /\ ~pl.sources[pl.cat].exists
    /\ pl' = [pl EXCEPT !.status[pl.cat] = "missing", !.cat = AfterSkip(pl.cat)]
    /\ UNCHANGED <<fsvars, sp, pipelineOthers>>

\* split_dataset(config=current_split_config, interactive=False) is called
PipelineSplitCall ==
    /\ pl.phase = "category"
    /\ pl.cat <= Len(CATEGORIES)
    /\ pl.sources[pl.cat].exists
    /\ sp' = SplitCall(TRUE, pl.sources[pl.cat].labels_exist, pl.sources[pl.cat].images,
                       pl.sources[pl.cat].labels, "disjoint", pl.trees[pl.cat], FALSE,
                       SPLIT_CONFIG_RATIOS, DEFAULT_MAX_TOTAL)
    /\ pl' = [pl EXCEPT !.phase = "split"]
    /\ UNCHANGED <<fsvars, pipelineOthers>>

\* "Split failed for {category}. Skipping augmentations."
PipelineSplitFailed ==
    /\ pl.phase = "split"
    /\ sp.phase = "returned"
    /\ ~sp.result.success
    /\ pl' = [pl EXCEPT !.phase = "category", !.status[pl.cat] = "split_failed",
                        !.trees[pl.cat] = sp.output, !.cat = AfterSkip(pl.cat)]
    /\ sp' = SplitIdle
    /\ UNCHANGED <<fsvars, pipelineOthers>>

\* the split succeeded: the stages are configured with the train directory
PipelineSplitDone ==
    /\ pl.phase = "split"
    /\ sp.phase = "returned"
    /\ sp.result.success
    /\ pl' = [pl EXCEPT !.phase = "augment", !.copied[pl.cat] = sp.output,
                        !.trees[pl.cat] = sp.output]
    /\ StageDirectory(sp.output.images[AugmentedSplit],
                      LabelsOfTree(sp.output.labels[AugmentedSplit]))
    /\ UNCHANGED <<sp, pipelineOthers>>

\* brightness_augment(config=bright_config, mode="fixed", interactive=False)
PipelineBrightness ==
    /\ pl.phase = "augment"
    /\ op = "idle" /\ ~crashed /\ runs = 0
    /\ Begin("brightness", GetAllImages(images, TRUE))

\* blur_dataset(config=blur_config, interactive=False)
PipelineBlur ==
    /\ pl.phase = "augment"
    /\ op = "idle" /\ ~crashed /\ runs = 1
    /\ IF GetAllCurrentImages(images) = {}
       THEN ReturnEarly("blur", {}, [NoResult EXCEPT !.success = TRUE])
       ELSE Begin("blur", GetAllCurrentImages(images))

\* occlusion.run_augmentation(output_dataset, "train")
PipelineOcclusion ==
    /\ pl.phase = "augment"
    /\ op = "idle" /\ ~crashed /\ runs = 2
    /\ IF GetAllCurrentImages(images) = {}
       THEN ReturnEarly("occlusion", {}, NoResult)
       ELSE Begin("occlusion", GetAllCurrentImages(images))

\* "FINISHED PROCESSING: {category}": the loop goes on with the next category
PipelineCategoryDone ==
    /\ pl.phase = "augment"
    /\ op = "idle" /\ ~crashed /\ runs = 3
    /\ pl' = [pl EXCEPT
                !.phase = "category", !.status[pl.cat] = "augmented",
                !.cat = pl.cat + 1,
                !.trees[pl.cat].images[AugmentedSplit] = images,
                !.trees[pl.cat].labels[AugmentedSplit] =
                    {File(stem, TXT_EXT) : stem \in DOMAIN labels}]
    /\ sp' = SplitIdle
    /\ StageDirectory({}, <<>>)
    /\ UNCHANGED pipelineOthers

\* "PIPELINE COMPLETED"
PipelineCompleted ==
    /\ pl.phase = "category"
    /\ pl.cat > Len(CATEGORIES)
    /\ pl' = [pl EXCEPT !.phase = "completed"]
    /\ UNCHANGED <<fsvars, sp, pipelineOthers>>

\* the sources of a category
Source(exists, labels_exist, names, labelled) ==
    [exists |-> exists, labels_exist |-> labels_exist,
     images |-> [i \in 1..Len(names) |-> File(RawName(names[i]), ".jpg")],
     labels |-> {File(RawName(r), TXT_EXT) : r \in labelled}]

SourceMissing == Source(FALSE, FALSE, <<>>, {})
SourceUnlabelled == Source(TRUE, TRUE, <<"a">>, {})
SourceNoLabelDir == Source(TRUE, FALSE, <<"a">>, {})
SourceSingle == Source(TRUE, TRUE, <<"a">>, {"a"})
SourceTwo == Source(TRUE, TRUE, <<"a", "b">>, {"a", "b"})
SourceNamed == Source(TRUE, TRUE, <<"a", "sun_bright">>, {"a", "sun_bright"})

\* the sources of the three categories and the output roots they start with
PipelineRuns ==
    {[sources |-> <<SourceUnlabelled, SourceMissing, SourceTwo>>,
      trees |-> <<OldTree, OldTree, NoTree>>],
     [sources |-> <<SourceTwo, SourceNoLabelDir, SourceSingle>>,
      trees |-> <<OldTree, NoTree, NoTree>>],
     [sources |-> <<SourceSingle, SourceNamed, SourceMissing>>,
      trees |-> <<NoTree, NoTree, OldTree>>]}

PipelineInit ==
    /\ FsFrozen
    /\ g = GeomIdle /\ sp = SplitIdle /\ mg = MergeIdle /\ ic = CheckIdle
    /\ rd = ReaderIdle /\ bt = TargetIdle
    /\ \E run \in PipelineRuns : pl = PipelineCall(run.sources, run.trees)

PipelineNext ==
    \/ PipelineSourceMissing \/ PipelineSplitCall \/ PipelineSplitFailed
    \/ PipelineSplitDone \/ PipelineBrightness \/ PipelineBlur \/ PipelineOcclusion
    \/ PipelineCategoryDone \/ PipelineCompleted
    \/ SplitNoPairs \/ SplitPlan \/ SplitRemoveExisting \/ SplitSlice
    \/ CopyFilesBegin \/ CopyFilesStep \/ CopyFilesReturn \/ SplitReturn
    \/ BrightnessStep \/ BrightnessFinish \/ BlurStep \/ BlurFinish
    \/ OcclusionStep \/ OcclusionFinish

SpecPipeline == PipelineInit /\ [][PipelineNext]_vars


----------------------------------------------------------------------------
(* Properties of run_pipeline                                              *)

\* the stage that returned last, when the pipeline is between two stages
Between(stages_run) ==
    pl.phase = "augment" /\ op = "idle" /\ ~crashed /\ runs = stages_run

\* the labelled images the split copied to the train directory
TrainCount == Cardinality(sp.output.images["train"])

\* C22: the stages compound: for a category whose train split holds n
\* labelled images after the split, the train directory holds 3n images after
\* brightness, 6n after blur and 12n after occlusion, with as many labels
\* (stated for the runs in which no copy and no file of a stage fails).
C22_StagesCompound ==
    (pl.phase = "augment" /\ sp.result.failed = 0) =>
        /\ Between(1) =>
              /\ CountImages(images) = 3 * TrainCount
              /\ Cardinality(DOMAIN labels) = 3 * TrainCount
        /\ (Between(2) /\ result.failed = 0) =>
              /\ CountImages(images) = 6 * TrainCount
              /\ Cardinality(DOMAIN labels) = 6 * TrainCount
        /\ (Between(3) /\ result.failed = 0 /\ skip_count = 0
            /\ Cardinality(files_to_process) = 6 * TrainCount) =>
              /\ CountImages(images) = 12 * TrainCount
              /\ Cardinality(DOMAIN labels) = 12 * TrainCount


\* the files of the output tree of category c
TreeFiles(c) ==
    UNION {pl.trees[c].images[s] \cup pl.trees[c].labels[s] : s \in SplitNames}

\* no file of the output tree of category c is a variant written by a stage
NoVariants(c) == \A f \in TreeFiles(c) : Len(f.stem) = 1

====
